---- MODULE Spec2Model ----
(***************************************************************************)
(* Model of the order path of the trading system: the order matching       *)
(* engine (services/order-matching-engine/src/main.rs), the risk manager   *)
(* (services/risk-manager/src/main.rs) with the risk engine of the core    *)
(* library (libs/core/src/lib.rs), and the order gateway                   *)
(* (services/order-gateway/src/main.rs) with the validator and the rate    *)
(* limiter of the core library; and of the compliance gateway              *)
(* (services/compliance-gateway/src/main.rs), whose handler runs in the    *)
(* consumer loop and in the HTTP handler at once and is modelled step by   *)
(* step, one step from each await of a lock, of a store query or of a send *)
(* to the next, with the route GET /kyc/status that fills the same cache;  *)
(* and of the execution engine                                             *)
(* (services/execution-engine/src/main.rs) with the exchange connector of  *)
(* the core library, whose retry loop is modelled attempt by attempt.  The *)
(* four tasks of the risk manager are modelled around the mutex of its     *)
(* state, and the matching engine with the topic its trades go to.         *)
(*                                                                         *)
(* Each service is a loop that consumes one JSON record from its input     *)
(* topic, decodes it, handles it and publishes the outcome.  Prices,       *)
(* quantities and limits are f64 in the source; the model uses small       *)
(* integers, on which f64 arithmetic and comparison are exact.  Instants   *)
(* are whole seconds of one clock.  The timestamp fields of the matching   *)
(* engine are left out: no decision of the engine reads them.              *)
(***************************************************************************)
EXTENDS Integers, Sequences, FiniteSets, TLC

\* ---------------------------------------------------------------- bounds
MaxOrders == 3
MaxPrice == 2
MaxQty == 2
MaxRiskOrders == 2
MaxTime == 360
MaxRequests == 3
MaxRate == 2
MaxValidated == 2
MaxTransactions == 2
MaxAppends == 2
MaxHours == 1
MaxEvaluations == 1
MaxHeartbeats == 1
MaxRetries == 2
MaxExecutions == 2
MaxStatusRequests == 1

Symbols == {"BTC/USD", "ETH/USD"}
Prices == 1..MaxPrice
Quantities == 0..MaxQty
OrderSide == {"Buy", "Sell"}
OrderType == {"Market", "Limit"}
TimeInForce == {"GTC", "IOC", "FOK"}

VARIABLES
    buy_orders,     \* MatchingEngine.buy_orders : symbol -> price -> queue
    sell_orders,    \* MatchingEngine.sell_orders: symbol -> price -> queue
    message,        \* the record last consumed from orders.validated
    trades,         \* the Vec<Trade> returned by the last process_order
    consumed,       \* number of records consumed so far
    uuid,           \* number of trade ids drawn so far (Uuid::new_v4)
    trades_executed, \* the records published on the topic trades.executed
    now,            \* Instant::now(), in seconds
    risk_config,    \* risk manager: AppState.config
    risk_circuit_breaker_state, \* risk manager: AppState.circuit_breaker_state
    risk_tripped,   \* risk manager: the counter CIRCUIT_BREAKER_TRIPPED
    risk_violations, \* risk manager: the counter RISK_VIOLATIONS
    risk_running,   \* risk manager: the process has not panicked
    risk_consumed,  \* risk manager: the records consumed from orders.incoming
    risk_result,    \* risk manager: the last RiskValidation of handle_risk_check
    orders_validated, \* the records published on the topic orders.validated
    orders_rejected, \* the records published on the topic orders.rejected
    risk_mutex,     \* risk manager: the Mutex<AppState>, holder and waiters
    risk_pc,        \* risk manager: task -> the await it is suspended at
    system_heartbeats, \* the number of records on the topic system.heartbeats
    gateway_config, \* gateway: AppState.config
    gateway_requests, \* gateway: AppState.rate_limiter.requests
    gateway_circuit_breaker_state, \* gateway: AppState.circuit_breaker_state
    gateway_running, \* gateway: the process has not panicked
    gateway_handled, \* gateway: number of records consumed from orders.client
    gateway_request, \* gateway: the record last consumed from orders.client
    gateway_response, \* gateway: the last OrderResponse of handle_order
    gateway_uuid,   \* gateway: number of ids drawn so far (Uuid::new_v4)
    orders_incoming, \* the records published on the topic orders.incoming
    compliance_config, \* compliance gateway: AppState.config
    transaction_history, \* compliance gateway: AppState.transaction_history
    user_cache,     \* compliance gateway: AppState.user_cache
    kyc_records,    \* the store's table kyc_records: user_id -> row
    db_transactions, \* the store's table transactions
    compliance_checks, \* the store's table compliance_checks
    compliance_alerts, \* the records published on the topic compliance.alerts
    compliance_tasks, \* compliance gateway: task -> its place in the handler
    compliance_uuid, \* compliance gateway: number of ids drawn (Uuid::new_v4)
    compliance_running, \* compliance gateway: process_transactions is alive
    compliance_responses, \* the responses of POST /compliance/check
    transactions_all, \* the records consumed from the topic transactions.all
    utc_now,        \* Utc::now(), in seconds
    kyc_status_task, \* compliance gateway: GET /kyc/status, its await
    kyc_status_responses, \* the responses of GET /kyc/status
    execution_config, \* execution engine: AppState.config
    execution_circuit_breaker_state, \* execution engine: its breaker
    execution_running, \* execution engine: the process has not panicked
    execution_consumed, \* execution engine: records consumed so far
    execution_order, \* execution engine: the record last consumed
    execution_report, \* execution engine: the last ExecutionReport
    execution_attempts, \* the venue's answers to the attempts of that order
    execution_retries, \* handle_execution: the local variable retries
    execution_pc,   \* execution engine: the await the main loop is at
    execution_uuid, \* execution engine: number of ids drawn (Uuid::new_v4)
    fills           \* the records published on the topic fills

engine_vars == <<buy_orders, sell_orders, message, trades, consumed, uuid,
                 trades_executed>>

risk_vars == <<risk_config, risk_circuit_breaker_state, risk_tripped,
               risk_violations, risk_running, risk_consumed, risk_result,
               orders_validated, orders_rejected, risk_mutex, risk_pc,
               system_heartbeats>>

gateway_vars == <<gateway_config, gateway_requests,
                  gateway_circuit_breaker_state, gateway_running,
                  gateway_handled, gateway_request, gateway_response,
                  gateway_uuid, orders_incoming>>

compliance_vars == <<compliance_config, transaction_history, user_cache,
                     kyc_records, db_transactions, compliance_checks,
                     compliance_alerts, compliance_tasks, compliance_uuid,
                     compliance_running, compliance_responses,
                     transactions_all, utc_now, kyc_status_task,
                     kyc_status_responses>>

kyc_status_vars == <<kyc_status_task, kyc_status_responses>>

execution_vars == <<execution_config, execution_circuit_breaker_state,
                    execution_running, execution_consumed, execution_order,
                    execution_report, execution_attempts, execution_retries,
                    execution_pc, execution_uuid, fills>>

vars == <<engine_vars, now, risk_vars, gateway_vars, compliance_vars,
          execution_vars>>

\* ------------------------------------------------------- map primitives
Put(f, k, v) == [x \in (DOMAIN f) \cup {k} |-> IF x = k THEN v ELSE f[x]]

Remove(f, k) == [x \in (DOMAIN f) \ {k} |-> f[x]]

EmptyMap == <<>>

Min(a, b) == IF a <= b THEN a ELSE b

RemoveAt(s, i) == [j \in 1..(Len(s) - 1) |-> IF j < i THEN s[j] ELSE s[j + 1]]

\* BTreeMap::keys(): the keys in ascending order of OrderedFloat::cmp
RECURSIVE Keys(_)
Keys(S) ==
    IF S = {} THEN <<>>
    ELSE LET m == CHOOSE x \in S : \A y \in S : x <= y
         IN <<m>> \o Keys(S \ {m})

\* ------------------------------------------------------------- decoding
\* serde_json::from_str::<Order>: the fields of the engine's Order struct
\* are taken, every other field of the JSON object is ignored.
ParseOrder(msg) ==
    [order_id        |-> msg.order_id,
     client_order_id |-> msg.client_order_id,
     symbol          |-> msg.symbol,
     price           |-> msg.price,
     quantity        |-> msg.quantity,
     side            |-> msg.side,
     order_type      |-> msg.order_type]

\* ------------------------------------------------------------- matching
\* variant: the price guard lets every level through
price_matches_any(incoming_order, price_level) == TRUE

price_matches(incoming_order, price_level) ==
    IF incoming_order.side = "Buy"
    THEN price_level <= incoming_order.price
    ELSE price_level >= incoming_order.price

\* variant: the trade is priced at the incoming order's price
NewTrade_taker_price(incoming_order, existing_order, trade_quantity, id) ==
    [trade_id  |-> id,
     symbol    |-> incoming_order.symbol,
     price     |-> incoming_order.price,
     quantity  |-> trade_quantity,
     buyer_id  |-> IF incoming_order.side = "Buy"
                   THEN incoming_order.client_order_id
                   ELSE existing_order.client_order_id,
     seller_id |-> IF incoming_order.side = "Sell"
                   THEN incoming_order.client_order_id
                   ELSE existing_order.client_order_id]

NewTrade(incoming_order, existing_order, trade_quantity, id) ==
    [trade_id  |-> id,
     symbol    |-> incoming_order.symbol,
     price     |-> existing_order.price,
     quantity  |-> trade_quantity,
     buyer_id  |-> IF incoming_order.side = "Buy"
                   THEN incoming_order.client_order_id
                   ELSE existing_order.client_order_id,
     seller_id |-> IF incoming_order.side = "Sell"
                   THEN incoming_order.client_order_id
                   ELSE existing_order.client_order_id]

\* the loop over orders_at_price.iter_mut().enumerate()
RECURSIVE MatchAtPrice(_, _, _)
MatchAtPrice(incoming_order, i, st) ==
    IF i > Len(st.orders_at_price) \/ st.remaining_quantity <= 0 THEN st
    ELSE LET existing_order == st.orders_at_price[i]
             trade_quantity == Min(st.remaining_quantity, existing_order.quantity)
             trade == NewTrade(incoming_order, existing_order, trade_quantity,
                               st.uuid + 1)
             left == existing_order.quantity - trade_quantity
         IN MatchAtPrice(incoming_order, i + 1,
              [orders_at_price   |-> [st.orders_at_price EXCEPT ![i].quantity = left],
               remaining_quantity |-> st.remaining_quantity - trade_quantity,
               trades            |-> Append(st.trades, trade),
               orders_to_remove  |-> IF left <= 0
                                     THEN Append(st.orders_to_remove, i)
                                     ELSE st.orders_to_remove,
               uuid              |-> st.uuid + 1])

\* for &i in orders_to_remove.iter().rev() { orders_at_price.remove(i) }
RECURSIVE RemoveFilled(_, _, _)
RemoveFilled(orders_at_price, orders_to_remove, k) ==
    IF k = 0 THEN orders_at_price
    ELSE RemoveFilled(RemoveAt(orders_at_price, orders_to_remove[k]),
                      orders_to_remove, k - 1)

\* the loop over price_levels, a snapshot of the keys of the symbol book
RECURSIVE MatchLevels(_, _, _, _)
MatchLevels(incoming_order, price_levels, n, st) ==
    IF n > Len(price_levels) \/ st.remaining_quantity <= 0 THEN st
    ELSE LET price_level == price_levels[n] IN
         IF ~price_matches(incoming_order, price_level)
         THEN MatchLevels(incoming_order, price_levels, n + 1, st)
         ELSE LET r == MatchAtPrice(incoming_order, 1,
                         [orders_at_price    |-> st.symbol_book[price_level],
                          remaining_quantity |-> st.remaining_quantity,
                          trades             |-> st.trades,
                          orders_to_remove   |-> <<>>,
                          uuid               |-> st.uuid])
                  kept == RemoveFilled(r.orders_at_price, r.orders_to_remove,
                                       Len(r.orders_to_remove))
              IN MatchLevels(incoming_order, price_levels, n + 1,
                   [symbol_book        |-> IF kept = <<>>
                                           THEN Remove(st.symbol_book, price_level)
                                           ELSE Put(st.symbol_book, price_level, kept),
                    remaining_quantity |-> r.remaining_quantity,
                    trades             |-> r.trades,
                    uuid               |-> r.uuid])

\* match_order(&mut self, incoming_order: &Order) -> Vec<Trade>
\* Result: the opposing map after matching, the trades, the ids drawn.
match_order(opposing_orders, incoming_order, id0) ==
    IF incoming_order.symbol \in DOMAIN opposing_orders
    THEN LET symbol_book == opposing_orders[incoming_order.symbol]
             r == MatchLevels(incoming_order, Keys(DOMAIN symbol_book), 1,
                     [symbol_book        |-> symbol_book,
                      remaining_quantity |-> incoming_order.quantity,
                      trades             |-> <<>>,
                      uuid               |-> id0])
         IN [opposing_orders |-> Put(opposing_orders, incoming_order.symbol,
                                     r.symbol_book),
             trades |-> r.trades,
             uuid   |-> r.uuid]
    ELSE [opposing_orders |-> opposing_orders, trades |-> <<>>, uuid |-> id0]

\* variant: the order is inserted at the head of the queue of its level
add_to_order_book_front(book, order) ==
    LET symbol_book == IF order.symbol \in DOMAIN book
                       THEN book[order.symbol] ELSE EmptyMap
        price_level == IF order.price \in DOMAIN symbol_book
                       THEN symbol_book[order.price] ELSE <<>>
    IN Put(book, order.symbol,
           Put(symbol_book, order.price, <<order>> \o price_level))

\* add_to_order_book: entry(symbol).or_insert, entry(price).or_insert, push
add_to_order_book(book, order) ==
    LET symbol_book == IF order.symbol \in DOMAIN book
                       THEN book[order.symbol] ELSE EmptyMap
        price_level == IF order.price \in DOMAIN symbol_book
                       THEN symbol_book[order.price] ELSE <<>>
    IN Put(book, order.symbol,
           Put(symbol_book, order.price, Append(price_level, order)))

\* variant: the order rests whatever its quantity
rests_always(order) == TRUE

\* the test of process_order that decides whether the order rests
rests(order) == order.quantity > 0

\* process_order(&mut self, order: Order) -> Vec<Trade>
process_order(buys, sells, order, id0) ==
    LET m == IF order.side = "Buy"
             THEN match_order(sells, order, id0)
             ELSE match_order(buys, order, id0)
        buys1  == IF order.side = "Buy" THEN buys ELSE m.opposing_orders
        sells1 == IF order.side = "Buy" THEN m.opposing_orders ELSE sells
    IN [buy_orders  |-> IF rests(order) /\ order.side = "Buy"
                        THEN add_to_order_book(buys1, order) ELSE buys1,
        sell_orders |-> IF rests(order) /\ order.side = "Sell"
                        THEN add_to_order_book(sells1, order) ELSE sells1,
        trades      |-> m.trades,
        uuid        |-> m.uuid]

\* ---------------------------------------------------------- risk engine
\* Option<T>: None, or Some(x)
None == <<>>

Some(x) == <<x>>

Abs(x) == IF x < 0 THEN -x ELSE x

\* RiskEngine.positions: created empty by RiskEngine::new and never written
positions == EmptyMap

\* check_position_limits without its exposure test
check_position_limits_no_exposure(position_limits, order) ==
    LET violations ==
            IF order.symbol \in DOMAIN position_limits
            THEN LET limit == position_limits[order.symbol]
                     new_position ==
                         CASE order.side = "buy" -> order.quantity
                           [] order.side = "sell" -> -order.quantity
                           [] OTHER -> 0
                 IN  (IF new_position > limit.max_long
                      THEN << <<"Position would exceed max long limit",
                                new_position, limit.max_long>> >>
                      ELSE <<>>)
                     \o
                     (IF new_position < -limit.max_short
                      THEN << <<"Position would exceed max short limit",
                                new_position, limit.max_short>> >>
                      ELSE <<>>)
            ELSE <<>>
    IN IF violations = <<>> THEN None ELSE Some(violations)

\* RiskEngine::check_position_limits(&self, order) -> Option<Vec<String>>
\* a violation is the message with the two numbers it is formatted with
check_position_limits(position_limits, order) ==
    LET violations ==
            IF order.symbol \in DOMAIN position_limits
            THEN LET limit == position_limits[order.symbol]
                     current_position ==
                         IF order.symbol \in DOMAIN positions
                         THEN positions[order.symbol] ELSE 0
                     new_position ==
                         CASE order.side = "buy" ->
                                  current_position + order.quantity
                           [] order.side = "sell" ->
                                  current_position - order.quantity
                           [] OTHER -> current_position
                     exposure == Abs(new_position) * order.price
                 IN  (IF new_position > limit.max_long
                      THEN << <<"Position would exceed max long limit",
                                new_position, limit.max_long>> >>
                      ELSE <<>>)
                     \o
                     (IF new_position < -limit.max_short
                      THEN << <<"Position would exceed max short limit",
                                new_position, limit.max_short>> >>
                      ELSE <<>>)
                     \o
                     (IF exposure > limit.max_exposure
                      THEN << <<"Exposure would exceed limit",
                                exposure, limit.max_exposure>> >>
                      ELSE <<>>)
            ELSE <<>>
    IN IF violations = <<>> THEN None ELSE Some(violations)

\* RiskEngine::check_risk_rules
check_risk_rules(order) == None

\* RiskEngine::check_compliance
check_compliance(order) == None

\* ------------------------------------------------------ order validator
\* Result<(), E>
Ok == <<"Ok">>

Err(e) == <<"Err", e>>

\* validate_order without its quantity test
validate_order_no_quantity(order) ==
    IF order.price <= 0 THEN Err("InvalidPrice")
    ELSE IF order.symbol = "" THEN Err("InvalidSymbol")
    ELSE IF order.side \notin {"buy", "sell"} THEN Err("InvalidSide")
    ELSE IF order.order_type \notin {"limit", "market", "stop", "stop_limit"}
    THEN Err("InvalidOrderType")
    ELSE Ok

\* order_validator::validate_order(order) -> Result<(), OrderValidationError>
validate_order(order) ==
    IF order.price <= 0 THEN Err("InvalidPrice")
    ELSE IF order.quantity <= 0 THEN Err("InvalidQuantity")
    ELSE IF order.symbol = "" THEN Err("InvalidSymbol")
    ELSE IF order.side \notin {"buy", "sell"} THEN Err("InvalidSide")
    ELSE IF order.order_type \notin {"limit", "market", "stop", "stop_limit"}
    THEN Err("InvalidOrderType")
    ELSE Ok

\* --------------------------------------------------------- rate limiter
\* RateLimiter.window, in seconds
WindowSecs == 60

\* the loop of check that pops the entries older than the window
RECURSIVE evict(_, _)
evict(requests, t) ==
    IF requests # <<>> /\ t - Head(requests) > WindowSecs
    THEN evict(Tail(requests), t)
    ELSE requests

\* a check that refuses only above the limit
check_above_limit(requests, max_requests, t) ==
    LET kept == evict(requests, t)
    IN IF Len(kept) > max_requests
       THEN [requests |-> kept, result |-> Err("RateLimitExceeded")]
       ELSE [requests |-> Append(kept, t), result |-> Ok]

\* RateLimiter::check(&mut self) -> Result<(), RateLimitExceeded>, at time
\* t; the queue it leaves is returned with the result
check(requests, max_requests, t) ==
    LET kept == evict(requests, t)
    IN IF Len(kept) >= max_requests
       THEN [requests |-> kept, result |-> Err("RateLimitExceeded")]
       ELSE [requests |-> Append(kept, t), result |-> Ok]

\* --------------------------------------------------------- risk manager
\* the cooldown of a tripped breaker, in seconds
CooldownSecs == 300

\* a breaker that counts as cooling down until the monitor clears it
cooling_down_until_cleared(circuit_breaker_state, t) ==
    circuit_breaker_state.cooldown_until # None

\* the test that opens handle_risk_check: a breaker that is cooling down
cooling_down(circuit_breaker_state, t) ==
    /\ circuit_breaker_state.cooldown_until # None
    /\ t < circuit_breaker_state.cooldown_until[1]

create_risk_validation(order, status, violations, timestamp) ==
    [order_id        |-> order.order_id,
     status          |-> status,
     violations      |-> violations,
     position_status |-> [symbol           |-> order.symbol,
                          current_position |-> 0,
                          exposure         |-> 0,
                          pnl              |-> 0,
                          last_updated     |-> timestamp],
     timestamp       |-> timestamp]

\* the violations handle_risk_check collects from the three checks
collect_violations(config, order) ==
    LET limit_violations      == check_position_limits(config.position_limits,
                                                       order)
        rule_violations       == check_risk_rules(order)
        compliance_violations == check_compliance(order)
    IN (IF limit_violations # None THEN limit_violations[1] ELSE <<>>)
       \o (IF rule_violations # None THEN rule_violations[1] ELSE <<>>)
       \o (IF compliance_violations # None
           THEN compliance_violations[1] ELSE <<>>)

\* a trip test that needs more violations than the threshold
trips_above(violations, config) ==
    Len(violations) > config.circuit_breaker_threshold

\* the test that trips the breaker
trips(violations, config) ==
    Len(violations) >= config.circuit_breaker_threshold

\* handle_risk_check(state, order) -> RiskValidation, at time t; the
\* fields of state it writes are returned with the result
handle_risk_check(circuit_breaker_state, config, order, t) ==
    IF cooling_down(circuit_breaker_state, t)
    THEN [result |-> create_risk_validation(order, "rejected",
                         <<"circuit_breaker_active">>, t),
          circuit_breaker_state |-> circuit_breaker_state,
          tripped    |-> 0,
          violations |-> 0]
    ELSE LET violations == collect_violations(config, order)
         IN IF trips(violations, config)
            THEN [result |-> create_risk_validation(order, "rejected",
                                 <<"circuit_breaker_tripped">>, t),
                  circuit_breaker_state |->
                      [error_count    |-> Len(violations),
                       cooldown_until |-> Some(t + CooldownSecs)],
                  tripped    |-> 1,
                  violations |-> 0]
            ELSE IF violations = <<>>
            THEN [result |-> create_risk_validation(order, "approved",
                                 <<>>, t),
                  circuit_breaker_state |-> circuit_breaker_state,
                  tripped    |-> 0,
                  violations |-> 0]
            ELSE [result |-> create_risk_validation(order, "rejected",
                                 violations, t),
                  circuit_breaker_state |-> circuit_breaker_state,
                  tripped    |-> 0,
                  violations |-> Len(violations)]

\* -------------------------------------------------------- order gateway
\* an id drawn with Uuid::new_v4().to_string(): the k-th draw; the empty
\* string is <<>>
Uuid(k) == <<"uuid", k>>

EmptyString == <<>>

\* a breaker test that never finds the breaker cooling down
gateway_cooling_down_never(circuit_breaker_state, t) == FALSE

\* the test that opens handle_order: a breaker that is cooling down
gateway_cooling_down(circuit_breaker_state, t) ==
    /\ circuit_breaker_state.cooldown_until # None
    /\ t < circuit_breaker_state.cooldown_until[1]

\* create_order_response: the client_order_id is a fresh id
create_order_response(order_id, status, reason, timestamp, id) ==
    [order_id        |-> order_id,
     client_order_id |-> Uuid(id),
     status          |-> status,
     reason          |-> reason,
     timestamp       |-> timestamp]

\* format!("validation_error: {:?}", e)
validation_error(e) ==
    CASE e = "InvalidPrice"     -> "validation_error: InvalidPrice"
      [] e = "InvalidQuantity"  -> "validation_error: InvalidQuantity"
      [] e = "InvalidSymbol"    -> "validation_error: InvalidSymbol"
      [] e = "InvalidSide"      -> "validation_error: InvalidSide"
      [] e = "InvalidOrderType" -> "validation_error: InvalidOrderType"

\* handle_order(state, order_request) -> OrderResponse, at time t, with
\* id0 ids drawn before; the rate limiter's queue and the number of ids
\* drawn are returned with the response.  The Order the function builds
\* after the three tests is dropped at its end.
handle_order(circuit_breaker_state, requests, config, order_request, t, id0) ==
    IF gateway_cooling_down(circuit_breaker_state, t)
    THEN [response |-> create_order_response(EmptyString, "rejected",
                           "circuit_breaker_active", t, id0 + 1),
          requests |-> requests,
          uuid     |-> id0 + 1]
    ELSE LET order_for_validation ==
                 [order_id        |-> Uuid(id0 + 1),
                  client_order_id |-> order_request.client_order_id,
                  symbol          |-> order_request.symbol,
                  price           |-> order_request.price,
                  quantity        |-> order_request.quantity,
                  side            |-> order_request.side,
                  order_type      |-> order_request.order_type,
                  time_in_force   |-> order_request.time_in_force,
                  user_id         |-> "",
                  timestamp       |-> t]
             validation_result == validate_order(order_for_validation)
         IN IF validation_result # Ok
            THEN [response |-> create_order_response(EmptyString, "rejected",
                                   validation_error(validation_result[2]),
                                   t, id0 + 2),
                  requests |-> requests,
                  uuid     |-> id0 + 2]
            ELSE LET limited == check(requests, config.rate_limit, t)
                 IN IF limited.result # Ok
                    THEN [response |-> create_order_response(EmptyString,
                                           "rejected", "rate_limit_exceeded",
                                           t, id0 + 2),
                          requests |-> limited.requests,
                          uuid     |-> id0 + 2]
                    ELSE [response |-> create_order_response(Uuid(id0 + 2),
                                           "accepted", "order_received",
                                           t, id0 + 3),
                          requests |-> limited.requests,
                          uuid     |-> id0 + 3]

\* the body of the loop of the gateway's monitor_circuit_breaker
gateway_monitor_circuit_breaker(circuit_breaker_state, t) ==
    IF /\ circuit_breaker_state.cooldown_until # None
       /\ t >= circuit_breaker_state.cooldown_until[1]
    THEN [error_count |-> 0, cooldown_until |-> None]
    ELSE circuit_breaker_state

\* --------------------------------------------------- compliance gateway
\* The compliance gateway (services/compliance-gateway/src/main.rs).  Its
\* clock is Utc::now() in whole seconds.  A Transaction keeps the fields a
\* decision reads (transaction_id, user_id, amount, wallet_address,
\* timestamp); symbol, transaction_type and counterparty are left out.  An
\* AMLAlert keeps alert_id, transaction_id, alert_type, severity and
\* recommended_action; its description, risk_indicators and timestamp are
\* left out.
HistoryLimit == 1000

HourSecs == 3600

DaySecs == 24 * HourSecs

\* ComplianceConfig::default: the thresholds and the two AML rules
DefaultComplianceConfig ==
    [risk_thresholds |->
         [transaction_amount_high |-> 10000,
          transaction_amount_critical |-> 50000,
          daily_volume_limit |-> 100000,
          risk_score_threshold |-> 75,
          velocity_threshold |-> 10],
     aml_rules |->
         <<[rule_id |-> "LARGE_TRANSACTION", rule_type |-> "amount",
            parameters |-> [threshold |-> 10000], enabled |-> TRUE],
           [rule_id |-> "VELOCITY_CHECK", rule_type |-> "velocity",
            parameters |-> [max_per_hour |-> 10], enabled |-> TRUE]>>]

\* the default configuration with a VELOCITY_CHECK whose parameters hold
\* no max_per_hour
NoMaxPerHourConfig ==
    [DefaultComplianceConfig EXCEPT
         !.aml_rules[2] = [rule_id |-> "VELOCITY_CHECK",
                           rule_type |-> "velocity",
                           parameters |-> EmptyMap, enabled |-> TRUE]]

\* the struct literal AMLAlert { .. } of every check
AMLAlert(alert_id, transaction, alert_type, severity, recommended_action) ==
    [alert_id |-> alert_id,
     transaction_id |-> transaction.transaction_id,
     alert_type |-> alert_type,
     severity |-> severity,
     recommended_action |-> recommended_action]

\* the push without the drain
push_history_unbounded(history, transaction) ==
    LET user_history ==
            Append(IF transaction.user_id \in DOMAIN history
                   THEN history[transaction.user_id] ELSE <<>>,
                   transaction)
    IN Put(history, transaction.user_id, user_history)

\* handle_transaction_compliance, "Store transaction in history": push,
\* then drain the front down to the last 1000
push_history(history, transaction) ==
    LET user_history ==
            Append(IF transaction.user_id \in DOMAIN history
                   THEN history[transaction.user_id] ELSE <<>>,
                   transaction)
        excess == Len(user_history) - HistoryLimit
    IN Put(history, transaction.user_id,
           IF Len(user_history) > HistoryLimit
           THEN SubSeq(user_history, excess + 1, Len(user_history))
           ELSE user_history)

\* a count of every transaction of the window, whatever its timestamp
recent_count_all(user_transactions, t) == Len(user_transactions)

\* user_transactions.iter().filter(|t| t.timestamp > one_hour_ago).count()
recent_count(user_transactions, t) ==
    Cardinality({i \in 1..Len(user_transactions) :
                     user_transactions[i].timestamp > t - HourSecs})

\* a rule of type amount that fires at its threshold already
check_aml_rule_at_threshold(config, history, transaction, rule, t, id) ==
    IF rule.rule_type = "amount"
    THEN IF "threshold" \notin DOMAIN rule.parameters THEN None
         ELSE IF transaction.amount >= rule.parameters.threshold
         THEN Some(AMLAlert(id, transaction, rule.rule_id,
                            IF transaction.amount >
                               config.risk_thresholds.transaction_amount_critical
                            THEN "critical" ELSE "high",
                            "enhanced_due_diligence"))
         ELSE None
    ELSE IF rule.rule_type = "velocity"
    THEN IF "max_per_hour" \notin DOMAIN rule.parameters THEN None
         ELSE IF /\ transaction.user_id \in DOMAIN history
                 /\ recent_count(history[transaction.user_id], t) >
                    rule.parameters.max_per_hour
         THEN Some(AMLAlert(id, transaction, rule.rule_id, "medium",
                            "temporary_limit"))
         ELSE None
    ELSE None

\* check_aml_rule: the alert of one rule, if any; id is the Uuid::new_v4()
\* the alert would take
check_aml_rule(config, history, transaction, rule, t, id) ==
    IF rule.rule_type = "amount"
    THEN IF "threshold" \notin DOMAIN rule.parameters THEN None
         ELSE IF transaction.amount > rule.parameters.threshold
         THEN Some(AMLAlert(id, transaction, rule.rule_id,
                            IF transaction.amount >
                               config.risk_thresholds.transaction_amount_critical
                            THEN "critical" ELSE "high",
                            "enhanced_due_diligence"))
         ELSE None
    ELSE IF rule.rule_type = "velocity"
    THEN IF "max_per_hour" \notin DOMAIN rule.parameters THEN None
         ELSE IF /\ transaction.user_id \in DOMAIN history
                 /\ recent_count(history[transaction.user_id], t) >
                    rule.parameters.max_per_hour
         THEN Some(AMLAlert(id, transaction, rule.rule_id, "medium",
                            "temporary_limit"))
         ELSE None
    ELSE None

\* check_aml_rule comes to state.transaction_history.lock().await: the
\* rule is of type velocity and has a max_per_hour, which the model keeps
\* as a natural number (the `?` of as_u64 returns before the lock for any
\* other value)
locks_history(rule) ==
    /\ rule.rule_type = "velocity"
    /\ "max_per_hour" \in DOMAIN rule.parameters

\* handle_transaction_compliance, "Run AML checks": one pass of the loop
\* over config.aml_rules, on rule k; alerts are those pushed so far
run_aml_rule(config, history, transaction, t, k, alerts, id0) ==
    LET rule == config.aml_rules[k]
        alert == IF rule.enabled
                 THEN check_aml_rule(config, history, transaction, rule, t,
                                     Uuid(id0 + 1))
                 ELSE None
    IN IF alert # None
       THEN [alerts |-> Append(alerts, alert[1]), uuid |-> id0 + 1]
       ELSE [alerts |-> alerts, uuid |-> id0]

\* get_kyc_record, "Check cache first": the record the cache holds for
\* the user
cached_kyc_record(cache, user_id) ==
    IF user_id \in DOMAIN cache THEN Some(cache[user_id]) ELSE None

\* get_kyc_record from the answer of its query on: fetched is the outcome
\* of the query, <<"Err">> or <<"Ok", row>> with row an Option.  A row
\* that is found is put in the cache, over a record that is there.
get_kyc_record(cache, fetched, user_id) ==
    IF fetched[1] = "Ok" /\ fetched[2] # None
    THEN [record |-> fetched[2],
          user_cache |-> Put(cache, user_id, fetched[2][1])]
    ELSE [record |-> None, user_cache |-> cache]

\* sqlx::query("SELECT * FROM kyc_records WHERE user_id = $1")
\* .fetch_optional: available says whether the store answers
fetch_optional(rows, user_id, available) ==
    IF ~available THEN <<"Err">>
    ELSE IF user_id \in DOMAIN rows
    THEN <<"Ok", Some(rows[user_id])>>
    ELSE <<"Ok", None>>

\* a check that asks for enhanced KYC whatever the amount
check_kyc_compliance_any_amount(config, kyc_record, transaction, id) ==
    IF kyc_record # None
    THEN LET record == kyc_record[1]
         IN IF record.status # "approved"
            THEN Some(AMLAlert(id, transaction, "KYC_NOT_APPROVED", "high",
                               "block_transaction"))
            ELSE IF record.verification_level = "basic"
            THEN Some(AMLAlert(id, transaction, "ENHANCED_KYC_REQUIRED",
                               "medium", "request_enhanced_kyc"))
            ELSE None
    ELSE Some(AMLAlert(id, transaction, "NO_KYC_RECORD", "critical",
                       "block_transaction"))

\* check_kyc_compliance on the Option that get_kyc_record returned
check_kyc_compliance(config, kyc_record, transaction, id) ==
    IF kyc_record # None
    THEN LET record == kyc_record[1]
         IN IF record.status # "approved"
            THEN Some(AMLAlert(id, transaction, "KYC_NOT_APPROVED", "high",
                               "block_transaction"))
            ELSE IF /\ transaction.amount >
                       config.risk_thresholds.transaction_amount_high
                    /\ record.verification_level = "basic"
            THEN Some(AMLAlert(id, transaction, "ENHANCED_KYC_REQUIRED",
                               "medium", "request_enhanced_kyc"))
            ELSE None
    ELSE Some(AMLAlert(id, transaction, "NO_KYC_RECORD", "critical",
                       "block_transaction"))

\* check_sanctions: the one address of sanctioned_addresses
sanctioned_addresses == {"1A1zP1eP5QGefi2DMPTfTL5SLmv7DivfNa"}

check_sanctions(transaction, id) ==
    IF /\ transaction.wallet_address # None
       /\ transaction.wallet_address[1] \in sanctioned_addresses
    THEN Some(AMLAlert(id, transaction, "SANCTIONS_HIT", "critical",
                       "block_transaction"))
    ELSE None

\* DateTime::hour of a timestamp
hour(timestamp) == (timestamp % DaySecs) \div HourSecs

\* a score that is the sum without the cap
calculate_risk_score_uncapped(config, history, kyc_record, transaction, t) ==
    LET amount_high ==
            IF transaction.amount >
               config.risk_thresholds.transaction_amount_high
            THEN 30 ELSE 0
        amount_critical ==
            IF transaction.amount >
               config.risk_thresholds.transaction_amount_critical
            THEN 40 ELSE 0
        count == IF transaction.user_id \in DOMAIN history
                 THEN recent_count(history[transaction.user_id], t)
                 ELSE 0
        velocity == (IF count > 5 THEN 20 ELSE 0)
                    + (IF count > 10 THEN 30 ELSE 0)
        unusual == IF hour(transaction.timestamp) < 6
                      \/ hour(transaction.timestamp) > 22
                   THEN 10 ELSE 0
        kyc == IF kyc_record # None
               THEN IF kyc_record[1].risk_rating = "high" THEN 25
                    ELSE IF kyc_record[1].risk_rating = "medium" THEN 10
                    ELSE 0
               ELSE 50
    IN amount_high + amount_critical + velocity + unusual + kyc

\* calculate_risk_score on the Option that its get_kyc_record returned
calculate_risk_score(config, history, kyc_record, transaction, t) ==
    LET amount_high ==
            IF transaction.amount >
               config.risk_thresholds.transaction_amount_high
            THEN 30 ELSE 0
        amount_critical ==
            IF transaction.amount >
               config.risk_thresholds.transaction_amount_critical
            THEN 40 ELSE 0
        count == IF transaction.user_id \in DOMAIN history
                 THEN recent_count(history[transaction.user_id], t)
                 ELSE 0
        velocity == (IF count > 5 THEN 20 ELSE 0)
                    + (IF count > 10 THEN 30 ELSE 0)
        unusual == IF hour(transaction.timestamp) < 6
                      \/ hour(transaction.timestamp) > 22
                   THEN 10 ELSE 0
        kyc == IF kyc_record # None
               THEN IF kyc_record[1].risk_rating = "high" THEN 25
                    ELSE IF kyc_record[1].risk_rating = "medium" THEN 10
                    ELSE 0
               ELSE 50
        risk_score == amount_high + amount_critical + velocity + unusual + kyc
    IN Min(risk_score, 100)

\* handle_transaction_compliance, "Risk scoring": the HIGH_RISK_SCORE alert
high_risk_score(config, risk_score, transaction, id) ==
    IF risk_score > config.risk_thresholds.risk_score_threshold
    THEN Some(AMLAlert(id, transaction, "HIGH_RISK_SCORE", "high",
                       "manual_review"))
    ELSE None

\* store_compliance_check: the ComplianceCheck row of an alert
ComplianceCheck(check_id, transaction, alert) ==
    [check_id |-> check_id,
     transaction_id |-> transaction.transaction_id,
     rule_name |-> alert.alert_type,
     status |-> "flagged",
     risk_score |-> 75]

\* the tasks that run handle_transaction_compliance: the consumer loop
\* process_transactions and the HTTP handler compliance_check
Tasks == {"process_transactions", "compliance_check"}

NoTransaction ==
    [transaction_id |-> <<"tx", 0>>, user_id |-> "", amount |-> 0,
     wallet_address |-> None, timestamp |-> 0]

\* a task between two calls of handle_transaction_compliance
\* no answer of the store is awaited or held
NoAnswer == <<"none">>

\* a task between two calls of handle_transaction_compliance; fetched is
\* the answer of the store to the query of get_kyc_record, counted_at the
\* instant calculate_risk_score counted the window at, and done the
\* number of alerts the loop over the alerts has dealt with
IdleTask ==
    [pc |-> "idle", transaction |-> NoTransaction, alerts |-> <<>>,
     risk_score |-> 0, result |-> "none", fetched |-> NoAnswer,
     counted_at |-> 0, done |-> 0, rule |-> 0, check_id |-> 0]

\* the handler of GET /kyc/status between two requests
IdleStatus == [pc |-> "idle", user_id |-> "", fetched |-> NoAnswer]

\* run_migrations, "Insert sample KYC record for testing"
SampleKycRecords ==
    [user_id \in {"user1"} |->
         [user_id |-> "user1", verification_level |-> "basic",
          status |-> "approved", risk_rating |-> "low"]]

\* the row of user1 after another service has rejected the user
RejectedKyc ==
    [user_id |-> "user1", verification_level |-> "basic",
     status |-> "rejected", risk_rating |-> "high"]

\* the rows of the table transactions behind the windows of a history
RowsOf(history) ==
    UNION {{history[u][i] : i \in 1..Len(history[u])} : u \in DOMAIN history}

\* main of the compliance gateway: the AppState over a store that holds
\* a table of KYC rows and the transactions handled before
ComplianceInit(configs, histories, tables, start) ==
    /\ compliance_config \in configs
    /\ transaction_history \in histories
    /\ user_cache = EmptyMap
    /\ kyc_records \in tables
    /\ db_transactions = RowsOf(transaction_history)
    /\ compliance_checks = <<>>
    /\ compliance_alerts = <<>>
    /\ compliance_tasks = [task \in Tasks |-> IdleTask]
    /\ compliance_uuid = 0
    /\ compliance_running = TRUE
    /\ compliance_responses = <<>>
    /\ transactions_all = <<>>
    /\ utc_now = start
    /\ kyc_status_task = IdleStatus
    /\ kyc_status_responses = <<>>

\* twelve o'clock of the first day of the clock
Noon == 12 * HourSecs

\* ----------------------------------------------------- execution engine
\* the venues an operator can configure in EXCHANGES: the list is empty
\* when the variable is unset or does not parse
NoExchanges == <<>>

BinanceOnly ==
    <<[exchange_type |-> "binance", symbols |-> {"BTC/USD"}]>>

\* the execution engine's configuration: main reads every field from the
\* environment
ExecutionConfigs(retries, thresholds, exchanges) ==
    [max_retries               : retries,
     circuit_breaker_threshold : thresholds,
     exchanges                 : exchanges]

\* the test that opens handle_execution: a breaker that is cooling down
execution_cooling_down(circuit_breaker_state, t) ==
    /\ circuit_breaker_state.cooldown_until # None
    /\ t < circuit_breaker_state.cooldown_until[1]

\* the first configured venue that lists the symbol
find_exchange_for_symbol(config, symbol) ==
    LET serving == {i \in 1..Len(config.exchanges) :
                       symbol \in config.exchanges[i].symbols}
    IN IF serving = {} THEN None
       ELSE Some(config.exchanges[
                CHOOSE i \in serving : \A j \in serving : i <= j].exchange_type)

\* AppState.exchange_connectors: main builds one connector for each entry
\* of config.exchanges
exchange_connectors(config) ==
    {config.exchanges[i].exchange_type : i \in 1..Len(config.exchanges)}

\* the ExecutionReport of an order; the reason is a parameter of the
\* function and no field of the record
create_execution_report(order, status, filled_quantity, remaining_quantity, avg_price, timestamp, reason) ==
    [order_id           |-> order.order_id,
     client_order_id    |-> order.client_order_id,
     symbol             |-> order.symbol,
     status             |-> status,
     filled_quantity    |-> filled_quantity,
     remaining_quantity |-> remaining_quantity,
     avg_price          |-> avg_price,
     timestamp          |-> timestamp]

\* ExchangeConnector::execute_order: the connector sleeps and answers Ok
\* with an execution that fills the whole order at its price; it has no
\* path that answers Err
execute_order(order) ==
    <<"Ok", [price    |-> order.price,
             quantity |-> order.quantity,
             status   |-> "Filled"]>>

\* the guard that ends the retry loop after a failed attempt
exhausted(retries, max_retries) == retries > max_retries

\* a retry loop that takes an execution for a failure
retry_loop_past_success(result, retries, max_retries) ==
    IF exhausted(retries + 1, max_retries) THEN "return" ELSE "sleep"

\* handle_execution, "Execute order with retries": what the loop does
\* with the answer of one attempt after retries failed ones: it breaks
\* with the execution, returns the rejection, or sleeps before the next
\* attempt
retry_loop(result, retries, max_retries) ==
    IF result[1] = "Ok" THEN "break"
    ELSE IF exhausted(retries + 1, max_retries) THEN "return"
    ELSE "sleep"

\* the status of a report after an execution
report_status(status) ==
    CASE status = "Filled"  -> "filled"
      [] status = "Partial" -> "partial"
      [] OTHER              -> "rejected"

\* handle_execution up to its retry loop: the breaker, the venue of the
\* symbol, the connector of the venue.  Result: the report of a rejection,
\* or None when the order goes to the venue.
reject_before_execution(circuit_breaker_state, config, order, t) ==
    IF execution_cooling_down(circuit_breaker_state, t)
    THEN Some(create_execution_report(order, "rejected", 0, order.quantity,
                                      0, t, "circuit_breaker_active"))
    ELSE LET exchange_type == find_exchange_for_symbol(config, order.symbol)
         IN IF exchange_type = None
            THEN Some(create_execution_report(order, "rejected", 0,
                          order.quantity, 0, t, "no_exchange_for_symbol"))
            ELSE IF exchange_type[1] \notin exchange_connectors(config)
            THEN Some(create_execution_report(order, "rejected", 0,
                          order.quantity, 0, t,
                          "exchange_connector_not_found"))
            ELSE None

\* handle_execution after a failed attempt that used up the retries
report_failure(order, t) ==
    create_execution_report(order, "rejected", 0, order.quantity, 0, t,
                            "execution_failed")

\* handle_execution after the venue has answered with an execution; the
\* Fill it builds before is a local value, dropped when it returns
report_execution(order, execution_result, t) ==
    create_execution_report(order, report_status(execution_result.status),
                            execution_result.quantity,
                            order.quantity - execution_result.quantity,
                            execution_result.price, t, "execution_complete")

\* ----------------------------------------------------------- the program
NoMessage == [order_id |-> <<"order", 0>>]

\* the records the engine can be handed: JSON objects that decode to an
\* Order; the upstream Order schema also carries time_in_force
Messages(n, symbols, types, tifs) ==
    [order_id        : {<<"order", n>>},
     client_order_id : {<<"client", n>>},
     symbol          : symbols,
     price           : Prices,
     quantity        : Quantities,
     side            : OrderSide,
     order_type      : types,
     time_in_force   : tifs]

\* MatchingEngine::new and the start of the engine's main
EngineInit ==
    /\ buy_orders = EmptyMap
    /\ sell_orders = EmptyMap
    /\ message = NoMessage
    /\ trades = <<>>
    /\ consumed = 0
    /\ uuid = 0
    /\ trades_executed = <<>>

\* tokio::sync::Mutex::lock: the task takes the mutex when it is free and
\* waits behind the earlier waiters otherwise
lock(mutex, task) ==
    IF mutex.holder = None
    THEN [holder |-> Some(task), waiters |-> mutex.waiters]
    ELSE [holder |-> mutex.holder, waiters |-> Append(mutex.waiters, task)]

\* the drop of a MutexGuard: the mutex passes to the first waiter
unlock(mutex) ==
    IF mutex.waiters = <<>> THEN [holder |-> None, waiters |-> <<>>]
    ELSE [holder  |-> Some(Head(mutex.waiters)),
          waiters |-> Tail(mutex.waiters)]

\* the risk manager's configuration: main reads every field from the
\* environment; the threshold is 5000 and the limits are empty when the
\* variable is unset or does not parse
RiskConfigs(thresholds, limits) ==
    [circuit_breaker_threshold : thresholds,
     position_limits           : limits]

DefaultRiskConfig ==
    [circuit_breaker_threshold |-> 5000, position_limits |-> EmptyMap]

NoResult == [order_id |-> <<"order", 0>>, status |-> "none",
             violations |-> <<>>]

\* the AppState built by the risk manager's main
RiskInit(configs) ==
    /\ risk_config \in configs
    /\ risk_circuit_breaker_state =
           [error_count |-> 0, cooldown_until |-> None]
    /\ risk_tripped = 0
    /\ risk_violations = 0
    /\ risk_running = TRUE
    /\ risk_consumed = <<>>
    /\ risk_result = NoResult
    /\ orders_validated = <<>>
    /\ orders_rejected = <<>>
    /\ risk_mutex = [holder |-> None, waiters |-> <<>>]
    /\ risk_pc = [main                    |-> "lock",
                  report_metrics          |-> "sleep",
                  send_heartbeat          |-> "interval",
                  monitor_circuit_breaker |-> "sleep"]
    /\ system_heartbeats = 0

\* the gateway's configuration: main reads the fields from the
\* environment; the threshold is 5000 and the rate limit 1000 when the
\* variable is unset or does not parse
GatewayConfigs(rate_limits) ==
    [circuit_breaker_threshold : {5000},
     rate_limit                : rate_limits]

DefaultGatewayConfig ==
    [circuit_breaker_threshold |-> 5000, rate_limit |-> 1000]

NoRequest == [client_order_id |-> <<"client", 0>>]

NoResponse == [order_id |-> EmptyString, status |-> "none", reason |-> "none"]

\* the AppState built by the gateway's main
GatewayInit(configs) ==
    /\ gateway_config \in configs
    /\ gateway_requests = <<>>
    /\ gateway_circuit_breaker_state =
           [error_count |-> 0, cooldown_until |-> None]
    /\ gateway_running = TRUE
    /\ gateway_handled = 0
    /\ gateway_request = NoRequest
    /\ gateway_response = NoResponse
    /\ gateway_uuid = 0
    /\ orders_incoming = <<>>

DefaultExecutionConfig ==
    [max_retries |-> 3, circuit_breaker_threshold |-> 5000,
     exchanges |-> NoExchanges]

NoReport == [order_id |-> <<"order", 0>>, status |-> "none"]

\* the AppState built by the execution engine's main
ExecutionInit(configs) ==
    /\ execution_config \in configs
    /\ execution_circuit_breaker_state =
           [error_count |-> 0, cooldown_until |-> None]
    /\ execution_running = TRUE
    /\ execution_consumed = 0
    /\ execution_order = NoMessage
    /\ execution_report = NoReport
    /\ execution_attempts = <<>>
    /\ execution_retries = 0
    /\ execution_pc = "consume"
    /\ execution_uuid = 0
    /\ fills = <<>>

Init ==
    /\ EngineInit
    /\ now = 0
    /\ RiskInit({DefaultRiskConfig})
    /\ GatewayInit({DefaultGatewayConfig})
    /\ ExecutionInit({DefaultExecutionConfig})
    /\ ComplianceInit({DefaultComplianceConfig}, {EmptyMap},
                      {SampleKycRecords}, Noon)

\* produce_message: the record is appended to the topic when the send is
\* delivered; the topic is as before when the send fails
produce_message(topic, key, payload, delivered) ==
    IF delivered THEN Append(topic, [key |-> key, payload |-> payload])
    ELSE topic

\* the loop over the trades of one order in the engine's main: the
\* serialized Trade is passed as the key and the empty string as the
\* payload, and the outcome of each send is dropped (.ok()); the sends
\* whose place in the list is in delivered are the delivered ones
RECURSIVE publish_trades(_, _, _, _)
publish_trades(topic, list, i, delivered) ==
    IF i > Len(list) THEN topic
    ELSE publish_trades(produce_message(topic, list[i], EmptyString,
                                        i \in delivered),
                        list, i + 1, delivered)

\* one turn of the main loop with a record that decodes, over a producer
\* that delivers the sends in delivered
ConsumePublish(msg, delivered) ==
    /\ consumed < MaxOrders
    /\ LET r == process_order(buy_orders, sell_orders, ParseOrder(msg), uuid)
       IN /\ buy_orders' = r.buy_orders
          /\ sell_orders' = r.sell_orders
          /\ trades' = r.trades
          /\ uuid' = r.uuid
          /\ trades_executed' =
                 publish_trades(trades_executed, r.trades, 1, delivered)
    /\ message' = msg
    /\ consumed' = consumed + 1
    /\ UNCHANGED <<now, risk_vars, gateway_vars, compliance_vars,
                   execution_vars>>

\* one turn of the main loop with a record that decodes, over a producer
\* that delivers every send
Consume(msg) == ConsumePublish(msg, Nat)

Next == \E msg \in Messages(consumed + 1, Symbols, OrderType, TimeInForce) :
            Consume(msg)

Spec == Init /\ [][Next]_vars

\* one symbol, every order type: the book of a single symbol
NextBook == \E msg \in Messages(consumed + 1, {"BTC/USD"}, OrderType, {"GTC"}) :
                Consume(msg)

SpecBook == Init /\ [][NextBook]_vars

\* every symbol, limit orders that are good till cancelled
NextLimit == \E msg \in Messages(consumed + 1, Symbols, {"Limit"}, {"GTC"}) :
                 Consume(msg)

SpecLimit == Init /\ [][NextLimit]_vars

\* one symbol, limit orders of every time-in-force
NextTif == \E msg \in Messages(consumed + 1, {"BTC/USD"}, {"Limit"}, TimeInForce) :
               Consume(msg)

SpecTif == Init /\ [][NextTif]_vars

\* one symbol, limit orders, and a producer that delivers or fails each
\* send of a trade
NextTrades ==
    \E msg \in Messages(consumed + 1, {"BTC/USD"}, {"Limit"}, {"GTC"}),
       delivered \in SUBSET (1..MaxOrders) :
        ConsumePublish(msg, delivered)

SpecTrades == Init /\ [][NextTrades]_vars

\* ------------------------------------------- the risk manager's program
\* serde_json::from_str::<polaris_core::Order>: every field of the struct
\* must be present in the JSON object
CoreOrderFields ==
    {"order_id", "client_order_id", "symbol", "price", "quantity", "side",
     "order_type", "time_in_force", "user_id", "timestamp"}

decodes_core_order(msg) == CoreOrderFields \subseteq DOMAIN msg

\* the limits an operator can configure for one symbol
PositionLimit ==
    {[max_long |-> 1, max_short |-> 1, max_exposure |-> 1]}

PositionLimits ==
    {EmptyMap} \cup {[s \in {"BTC/USD"} |-> l] : l \in PositionLimit}

Thresholds == {0, 1, 2, 5000}

\* the records on orders.incoming that decode to an Order
CoreOrders(n, symbols, sides, t) ==
    [order_id        : {<<"order", n>>},
     client_order_id : {<<"client", n>>},
     symbol          : symbols,
     price           : Prices,
     quantity        : 1..MaxQty,
     side            : sides,
     order_type      : {"limit"},
     time_in_force   : {"GTC"},
     user_id         : {"user1"},
     timestamp       : {t}]

\* the topic a RiskValidation is published on
output_topic(result) ==
    IF result.status = "approved" THEN "orders.validated"
    ELSE "orders.rejected"

\* one turn of the risk manager's main loop with the record msg; the
\* publish either delivers the record or fails, and the failure panics
RiskConsume(msg, delivered) ==
    /\ risk_running
    /\ Len(risk_consumed) < MaxRiskOrders
    /\ \/ risk_pc.main = "consume" /\ risk_mutex.holder = Some("main")
       \/ risk_pc.main = "lock" /\ risk_mutex.holder = None
    /\ risk_mutex' = IF risk_pc.main = "consume" THEN unlock(risk_mutex)
                     ELSE risk_mutex
    /\ risk_pc' = [risk_pc EXCEPT !.main = "lock"]
    /\ risk_consumed' = Append(risk_consumed, msg)
    /\ IF decodes_core_order(msg)
       THEN LET r == handle_risk_check(risk_circuit_breaker_state,
                                       risk_config, msg, now)
            IN /\ risk_result' = r.result
               /\ risk_circuit_breaker_state' = r.circuit_breaker_state
               /\ risk_tripped' = risk_tripped + r.tripped
               /\ risk_violations' = risk_violations + r.violations
               /\ risk_running' = delivered
               /\ orders_validated' =
                      IF delivered /\ output_topic(r.result) = "orders.validated"
                      THEN Append(orders_validated, r.result)
                      ELSE orders_validated
               /\ orders_rejected' =
                      IF delivered /\ output_topic(r.result) = "orders.rejected"
                      THEN Append(orders_rejected, r.result)
                      ELSE orders_rejected
       ELSE UNCHANGED <<risk_result, risk_circuit_breaker_state,
                        risk_tripped, risk_violations, risk_running,
                        orders_validated, orders_rejected>>
    /\ UNCHANGED <<engine_vars, now, risk_config, system_heartbeats,
                   gateway_vars, compliance_vars, execution_vars>>

\* the body of the loop of monitor_circuit_breaker
monitor_circuit_breaker(circuit_breaker_state, t) ==
    IF /\ circuit_breaker_state.cooldown_until # None
       /\ t >= circuit_breaker_state.cooldown_until[1]
    THEN [error_count |-> 0, cooldown_until |-> None]
    ELSE circuit_breaker_state

\* one wake-up of the risk manager's monitor_circuit_breaker task
RiskMonitor ==
    /\ risk_running
    /\ \/ /\ risk_pc.monitor_circuit_breaker = "check"
          /\ risk_mutex.holder = Some("monitor_circuit_breaker")
       \/ /\ risk_pc.monitor_circuit_breaker = "sleep"
          /\ risk_mutex.holder = None
    /\ risk_mutex' = IF risk_pc.monitor_circuit_breaker = "check"
                     THEN unlock(risk_mutex) ELSE risk_mutex
    /\ risk_pc' = [risk_pc EXCEPT !.monitor_circuit_breaker = "sleep"]
    /\ risk_circuit_breaker_state' =
           monitor_circuit_breaker(risk_circuit_breaker_state, now)
    /\ UNCHANGED <<engine_vars, now, risk_config, risk_tripped,
                   risk_violations, risk_running, risk_consumed,
                   risk_result, orders_validated, orders_rejected,
                   system_heartbeats, gateway_vars, compliance_vars,
                   execution_vars>>

\* the main loop takes the state mutex, or queues for it, and with the
\* guard alive awaits consume_messages
RiskLock ==
    /\ risk_running
    /\ risk_pc.main = "lock"
    /\ risk_mutex' = lock(risk_mutex, "main")
    /\ risk_pc' = [risk_pc EXCEPT !.main = "consume"]
    /\ UNCHANGED <<engine_vars, now, risk_config,
                   risk_circuit_breaker_state, risk_tripped,
                   risk_violations, risk_running, risk_consumed,
                   risk_result, orders_validated, orders_rejected,
                   system_heartbeats, gateway_vars, compliance_vars,
                   execution_vars>>

\* the sleep of 60 s of a periodic task ends and the task asks for the
\* state mutex: report_metrics before its report, monitor_circuit_breaker
\* before its check
RiskWake(task, next) ==
    /\ risk_running
    /\ risk_pc[task] = "sleep"
    /\ risk_mutex' = lock(risk_mutex, task)
    /\ risk_pc' = [risk_pc EXCEPT ![task] = next]
    /\ UNCHANGED <<engine_vars, now, risk_config,
                   risk_circuit_breaker_state, risk_tripped,
                   risk_violations, risk_running, risk_consumed,
                   risk_result, orders_validated, orders_rejected,
                   system_heartbeats, gateway_vars, compliance_vars,
                   execution_vars>>

\* report_metrics reads the state under the mutex and drops the guard
ReportMetrics ==
    /\ risk_running
    /\ risk_pc.report_metrics = "report"
    /\ risk_mutex.holder = Some("report_metrics")
    /\ risk_mutex' = unlock(risk_mutex)
    /\ risk_pc' = [risk_pc EXCEPT !.report_metrics = "sleep"]
    /\ UNCHANGED <<engine_vars, now, risk_config,
                   risk_circuit_breaker_state, risk_tripped,
                   risk_violations, risk_running, risk_consumed,
                   risk_result, orders_validated, orders_rejected,
                   system_heartbeats, gateway_vars, compliance_vars,
                   execution_vars>>

\* send_heartbeat locks the state to read heartbeat_interval inside the
\* argument of sleep: the guard is a temporary of the statement and lives
\* until the sleep has ended
HeartbeatInterval ==
    /\ risk_running
    /\ risk_pc.send_heartbeat = "interval"
    /\ risk_mutex' = lock(risk_mutex, "send_heartbeat")
    /\ risk_pc' = [risk_pc EXCEPT !.send_heartbeat = "sleep"]
    /\ UNCHANGED <<engine_vars, now, risk_config,
                   risk_circuit_breaker_state, risk_tripped,
                   risk_violations, risk_running, risk_consumed,
                   risk_result, orders_validated, orders_rejected,
                   system_heartbeats, gateway_vars, compliance_vars,
                   execution_vars>>

\* the sleep of send_heartbeat ends: the guard of the statement is
\* dropped and the task locks the state again, for the send
HeartbeatWake ==
    /\ risk_running
    /\ risk_pc.send_heartbeat = "sleep"
    /\ risk_mutex.holder = Some("send_heartbeat")
    /\ risk_mutex' = lock(unlock(risk_mutex), "send_heartbeat")
    /\ risk_pc' = [risk_pc EXCEPT !.send_heartbeat = "send"]
    /\ UNCHANGED <<engine_vars, now, risk_config,
                   risk_circuit_breaker_state, risk_tripped,
                   risk_violations, risk_running, risk_consumed,
                   risk_result, orders_validated, orders_rejected,
                   system_heartbeats, gateway_vars, compliance_vars,
                   execution_vars>>

\* the publish of the heartbeat returns, with the guard alive; a failed
\* publish panics the task, which drops the guard and ends the task
HeartbeatSend(delivered) ==
    /\ risk_running
    /\ risk_pc.send_heartbeat = "send"
    /\ risk_mutex.holder = Some("send_heartbeat")
    /\ system_heartbeats < MaxHeartbeats
    /\ system_heartbeats' =
           IF delivered THEN system_heartbeats + 1 ELSE system_heartbeats
    /\ risk_mutex' = unlock(risk_mutex)
    /\ risk_pc' = [risk_pc EXCEPT !.send_heartbeat =
                                     IF delivered THEN "interval" ELSE "panicked"]
    /\ UNCHANGED <<engine_vars, now, risk_config,
                   risk_circuit_breaker_state, risk_tripped,
                   risk_violations, risk_running, risk_consumed,
                   risk_result, orders_validated, orders_rejected,
                   gateway_vars, compliance_vars, execution_vars>>

\* the clock advances by d seconds
Tick(d) ==
    /\ now + d <= MaxTime
    /\ now' = now + d
    /\ UNCHANGED <<engine_vars, risk_vars, gateway_vars, compliance_vars,
                   execution_vars>>

\* the risk manager on its own, at one instant: orders on a symbol with
\* and without a limit, a breaker that two violations trip or none does
InitRisk ==
    /\ EngineInit
    /\ now = 0
    /\ RiskInit(RiskConfigs({2, 5000}, PositionLimits))
    /\ GatewayInit({DefaultGatewayConfig})
    /\ ExecutionInit({DefaultExecutionConfig})
    /\ ComplianceInit({DefaultComplianceConfig}, {EmptyMap},
                      {SampleKycRecords}, Noon)

NextRisk ==
    \E msg \in CoreOrders(Len(risk_consumed) + 1, Symbols,
                          {"buy", "sell", "hold"}, now),
       delivered \in BOOLEAN :
        RiskConsume(msg, delivered)

SpecRisk == InitRisk /\ [][NextRisk]_vars

\* the breaker of the risk manager over time: sell orders on one symbol
\* with a limit, the clock and the monitor task
InitBreaker ==
    /\ EngineInit
    /\ now = 0
    /\ RiskInit(RiskConfigs(Thresholds, PositionLimits \ {EmptyMap}))
    /\ GatewayInit({DefaultGatewayConfig})
    /\ ExecutionInit({DefaultExecutionConfig})
    /\ ComplianceInit({DefaultComplianceConfig}, {EmptyMap},
                      {SampleKycRecords}, Noon)

NextBreaker ==
    \/ \E msg \in CoreOrders(Len(risk_consumed) + 1, {"BTC/USD"},
                             {"sell"}, now) :
           RiskConsume(msg, TRUE)
    \/ RiskMonitor
    \/ Tick(60)

SpecBreaker == InitBreaker /\ [][NextBreaker]_vars

\* the four tasks of the risk manager around the state mutex: sell orders
\* on one symbol with a limit, and a producer that delivers or fails
NextMutex ==
    \/ RiskLock
    \/ \E msg \in CoreOrders(Len(risk_consumed) + 1, {"BTC/USD"},
                             {"sell"}, now),
          delivered \in BOOLEAN :
           RiskConsume(msg, delivered)
    \/ RiskWake("monitor_circuit_breaker", "check")
    \/ RiskMonitor
    \/ RiskWake("report_metrics", "report")
    \/ ReportMetrics
    \/ HeartbeatInterval
    \/ HeartbeatWake
    \/ \E delivered \in BOOLEAN : HeartbeatSend(delivered)

SpecMutex == InitRisk /\ [][NextMutex]_vars

\* ----------------------------------------------- the gateway's program
\* serde_json::from_str::<OrderRequest>: every field of the struct must be
\* present in the JSON object
OrderRequestFields ==
    {"client_order_id", "symbol", "price", "quantity", "side",
     "order_type", "time_in_force"}

decodes_order_request(msg) == OrderRequestFields \subseteq DOMAIN msg

\* the records on orders.client that decode to an OrderRequest
OrderRequests(n, symbols, prices, quantities, sides, types) ==
    [client_order_id : {<<"client", n>>},
     symbol          : symbols,
     price           : prices,
     quantity        : quantities,
     side            : sides,
     order_type      : types,
     time_in_force   : {"GTC"}]

\* one turn of the gateway's main loop with the record msg; the publish
\* either delivers the record or fails, and the failure panics
GatewayConsume(msg, delivered) ==
    /\ gateway_running
    /\ gateway_handled < MaxRequests
    /\ gateway_handled' = gateway_handled + 1
    /\ gateway_request' = msg
    /\ IF decodes_order_request(msg)
       THEN LET r == handle_order(gateway_circuit_breaker_state,
                                  gateway_requests, gateway_config, msg,
                                  now, gateway_uuid)
            IN /\ gateway_response' = r.response
               /\ gateway_requests' = r.requests
               /\ gateway_uuid' = r.uuid
               /\ gateway_running' = delivered
               /\ orders_incoming' =
                      IF delivered THEN Append(orders_incoming, r.response)
                      ELSE orders_incoming
       ELSE UNCHANGED <<gateway_response, gateway_requests, gateway_uuid,
                        gateway_running, orders_incoming>>
    /\ UNCHANGED <<engine_vars, now, risk_vars, gateway_config,
                   gateway_circuit_breaker_state, compliance_vars,
                   execution_vars>>

\* one wake-up of the gateway's monitor_circuit_breaker task
GatewayMonitor ==
    /\ gateway_running
    /\ gateway_circuit_breaker_state' =
           gateway_monitor_circuit_breaker(gateway_circuit_breaker_state, now)
    /\ UNCHANGED <<engine_vars, now, risk_vars, gateway_config,
                   gateway_requests, gateway_running, gateway_handled,
                   gateway_request, gateway_response, gateway_uuid,
                   orders_incoming, compliance_vars, execution_vars>>

\* the gateway on its own with a producer that delivers: well-formed
\* requests and requests without a quantity, any rate limit, the clock and
\* the monitor task
InitGateway ==
    /\ EngineInit
    /\ now = 0
    /\ RiskInit({DefaultRiskConfig})
    /\ GatewayInit(GatewayConfigs(0..MaxRate))
    /\ ExecutionInit({DefaultExecutionConfig})
    /\ ComplianceInit({DefaultComplianceConfig}, {EmptyMap},
                      {SampleKycRecords}, Noon)

NextGateway ==
    \/ \E msg \in OrderRequests(gateway_handled + 1, {"BTC/USD"}, {1},
                                 {0, 1}, {"buy"}, {"limit"}) :
           GatewayConsume(msg, TRUE)
    \/ GatewayMonitor
    \/ Tick(30)

SpecGateway == InitGateway /\ [][NextGateway]_vars

\* handle_order as a function of the AppState and the request it is given:
\* every shape of request, a rate limiter with and without room, and a
\* breaker that is clear or cooling down.  No statement of the gateway
\* writes cooldown_until, so the breaker is an input here.
InitHandleOrder ==
    /\ EngineInit
    /\ now = 0
    /\ RiskInit({DefaultRiskConfig})
    /\ gateway_config \in GatewayConfigs({0, 1})
    /\ gateway_requests = <<>>
    /\ gateway_circuit_breaker_state \in
           {[error_count |-> 0, cooldown_until |-> None],
            [error_count |-> 0, cooldown_until |-> Some(CooldownSecs)]}
    /\ gateway_running = TRUE
    /\ gateway_handled = 0
    /\ gateway_request = NoRequest
    /\ gateway_response = NoResponse
    /\ gateway_uuid = 0
    /\ orders_incoming = <<>>
    /\ ExecutionInit({DefaultExecutionConfig})
    /\ ComplianceInit({DefaultComplianceConfig}, {EmptyMap},
                      {SampleKycRecords}, Noon)

NextHandleOrder ==
    /\ gateway_handled < MaxValidated
    /\ \E msg \in OrderRequests(gateway_handled + 1, {"", "BTC/USD"},
                                 {-1, 0, 1}, {-1, 0, 1},
                                 {"buy", "sell", "hold"},
                                 {"limit", "market", "stop", "stop_limit",
                                  "iceberg"}) :
           GatewayConsume(msg, TRUE)

SpecHandleOrder == InitHandleOrder /\ [][NextHandleOrder]_vars

\* ------------------------------------------------------- the pipeline
\* serde_json::from_str::<Order> of the engine: every field of its struct
\* must be present (the timestamp is left out of the engine's records
\* here) and side and order_type must name a variant of their enum
EngineOrderFields ==
    {"order_id", "client_order_id", "symbol", "price", "quantity", "side",
     "order_type"}

decodes_order(msg) ==
    /\ EngineOrderFields \subseteq DOMAIN msg
    /\ msg.side \in OrderSide
    /\ msg.order_type \in OrderType

\* one turn of the engine's main loop with a record that does not decode
ConsumeUndecoded(msg) ==
    /\ consumed < MaxOrders
    /\ message' = msg
    /\ consumed' = consumed + 1
    /\ UNCHANGED <<buy_orders, sell_orders, trades, uuid, trades_executed,
                   now, risk_vars,
                   gateway_vars, compliance_vars, execution_vars>>

\* the gateway handles a well-formed request from orders.client
PipelineSubmit ==
    \E msg \in OrderRequests(gateway_handled + 1, {"BTC/USD"}, Prices,
                              1..MaxQty, {"buy", "sell"}, {"limit"}) :
        GatewayConsume(msg, TRUE)

\* another producer appends an Order to orders.incoming
PipelineInject ==
    /\ Len(orders_incoming) < MaxRiskOrders
    /\ \E msg \in CoreOrders(Len(orders_incoming) + 1, {"BTC/USD"},
                              {"buy", "sell"}, now) :
           orders_incoming' = Append(orders_incoming, msg)
    /\ UNCHANGED <<engine_vars, now, risk_vars, gateway_config,
                   gateway_requests, gateway_circuit_breaker_state,
                   gateway_running, gateway_handled, gateway_request,
                   gateway_response, gateway_uuid, compliance_vars,
                   execution_vars>>

\* the risk manager consumes the next record of orders.incoming
RiskPoll ==
    /\ Len(risk_consumed) < Len(orders_incoming)
    /\ RiskConsume(orders_incoming[Len(risk_consumed) + 1], TRUE)

\* the engine consumes the next record of orders.validated
EnginePoll ==
    /\ consumed < Len(orders_validated)
    /\ LET msg == orders_validated[consumed + 1]
       IN IF decodes_order(msg) THEN Consume(msg)
          ELSE ConsumeUndecoded(msg)

\* the three services on the topics that connect them, each with the
\* configuration it has when its environment is unset
NextPipeline ==
    \/ PipelineSubmit
    \/ PipelineInject
    \/ RiskPoll
    \/ EnginePoll

SpecPipeline == Init /\ [][NextPipeline]_vars

\* ------------------------------------ the compliance gateway's program
\* the Transaction records a producer or a client can send as the n-th
Transactions(n, users, amounts, wallets, timestamps) ==
    {[transaction_id |-> <<"tx", n>>, user_id |-> u, amount |-> a,
      wallet_address |-> w, timestamp |-> ts] :
        u \in users, a \in amounts, w \in wallets, ts \in timestamps}

\* the number of transactions the two tasks have taken up so far
Begun ==
    Len(transactions_all) + Len(compliance_responses)
    + (IF compliance_tasks["compliance_check"].pc # "idle" THEN 1 ELSE 0)

\* a task of the runtime can take a step: the consumer loop only until it
\* panics
Alive(task) == task = "process_transactions" => compliance_running

\* the task holds the guard of transaction_history: calculate_risk_score
\* takes the lock before it counts and keeps the guard until it returns,
\* across the store query of its get_kyc_record
holds_history(task) ==
    compliance_tasks[task].pc \in {"score_query", "score_insert"}

\* state.transaction_history.lock().await returns: no task holds the guard
history_unlocked == \A task \in Tasks : ~holds_history(task)

\* store_transaction: the INSERT into transactions, whose primary key is
\* transaction_id; available says whether the store answers
store_transaction(rows, transaction, available) ==
    IF /\ available
       /\ \A row \in rows : row.transaction_id # transaction.transaction_id
    THEN [rows |-> rows \cup {transaction}, result |-> "Ok"]
    ELSE [rows |-> rows, result |-> "Err"]

\* handle_transaction_compliance returns result to its caller with rec
\* the task's locals: compliance_check answers 200 with the alerts or
\* 500, and process_transactions goes on to publish the alerts of an Ok,
\* when there are any, and drops an Err
Returns(task, rec, result) ==
    /\ compliance_tasks' =
           [compliance_tasks EXCEPT ![task] =
                [rec EXCEPT !.pc = IF /\ task = "process_transactions"
                                      /\ result = "Ok"
                                      /\ rec.alerts # <<>>
                                   THEN "publish" ELSE "idle",
                            !.result = result,
                            !.fetched = NoAnswer,
                            !.done = 0,
                            !.check_id = 0]]
    /\ compliance_responses' =
           IF task = "compliance_check"
           THEN Append(compliance_responses,
                       [transaction_id |-> rec.transaction.transaction_id,
                        status |-> IF result = "Ok" THEN 200 ELSE 500,
                        alerts |-> IF result = "Ok" THEN rec.alerts
                                   ELSE <<>>])
           ELSE compliance_responses

\* handle_transaction_compliance is called with the transaction and comes
\* to state.transaction_history.lock().await
Begin(task, transaction) ==
    /\ compliance_tasks[task].pc = "idle"
    /\ compliance_tasks' =
           [compliance_tasks EXCEPT ![task] =
                [pc |-> "push_history", transaction |-> transaction,
                 alerts |-> <<>>, risk_score |-> 0, result |-> "none",
                 fetched |-> NoAnswer, counted_at |-> 0, done |-> 0,
                 rule |-> 0, check_id |-> 0]]

\* process_transactions consumes a record of transactions.all that decodes
ProcessTransaction(msg) ==
    /\ compliance_running
    /\ Begin("process_transactions", msg)
    /\ transactions_all' = Append(transactions_all, msg)
    /\ UNCHANGED <<engine_vars, now, risk_vars, gateway_vars,
                   compliance_config, transaction_history, user_cache,
                   kyc_records, db_transactions, compliance_checks,
                   compliance_alerts, compliance_uuid, compliance_running,
                   compliance_responses, utc_now, kyc_status_vars,
                   execution_vars>>

\* compliance_check receives the body of a POST /compliance/check
ComplianceCheckRequest(body) ==
    /\ Begin("compliance_check", body)
    /\ UNCHANGED transactions_all
    /\ UNCHANGED <<engine_vars, now, risk_vars, gateway_vars,
                   compliance_config, transaction_history, user_cache,
                   kyc_records, db_transactions, compliance_checks,
                   compliance_alerts, compliance_uuid, compliance_running,
                   compliance_responses, utc_now, kyc_status_vars,
                   execution_vars>>

\* handle_transaction_compliance, "Store transaction in history": once
\* the lock is free the transaction is pushed on its user's window
PushHistory(task) ==
    /\ Alive(task)
    /\ compliance_tasks[task].pc = "push_history"
    /\ history_unlocked
    /\ transaction_history' =
           push_history(transaction_history,
                        compliance_tasks[task].transaction)
    /\ compliance_tasks' =
           [compliance_tasks EXCEPT ![task].pc = "store_transaction"]
    /\ UNCHANGED <<engine_vars, now, risk_vars, gateway_vars,
                   compliance_config, user_cache, kyc_records,
                   db_transactions, compliance_checks, compliance_alerts,
                   compliance_uuid, compliance_running,
                   compliance_responses, transactions_all, utc_now,
                   kyc_status_vars, execution_vars>>

\* handle_transaction_compliance, "Store transaction in database"
StoreTransaction(task, available) ==
    /\ Alive(task)
    /\ compliance_tasks[task].pc = "store_transaction"
    /\ LET rec == compliance_tasks[task]
           r == store_transaction(db_transactions, rec.transaction, available)
       IN /\ db_transactions' = r.rows
          /\ IF r.result = "Ok"
             THEN /\ compliance_tasks' =
                         [compliance_tasks EXCEPT ![task] =
                              IF compliance_config.aml_rules = <<>>
                              THEN [rec EXCEPT !.pc = "kyc"]
                              ELSE [rec EXCEPT !.pc = "aml", !.rule = 1]]
                  /\ UNCHANGED compliance_responses
             ELSE Returns(task, rec, "Err")
    /\ UNCHANGED <<engine_vars, now, risk_vars, gateway_vars,
                   compliance_config, transaction_history, user_cache,
                   kyc_records, compliance_checks, compliance_alerts,
                   compliance_uuid, compliance_running, transactions_all,
                   utc_now, kyc_status_vars, execution_vars>>

\* handle_transaction_compliance, "Run AML checks": the pass of the loop
\* on the task's next rule; an enabled rule that counts the window waits
\* for the lock
AmlChecks(task) ==
    /\ Alive(task)
    /\ compliance_tasks[task].pc = "aml"
    /\ LET rec == compliance_tasks[task]
           rule == compliance_config.aml_rules[rec.rule]
           r == run_aml_rule(compliance_config, transaction_history,
                             rec.transaction, utc_now, rec.rule, rec.alerts,
                             compliance_uuid)
       IN /\ rule.enabled /\ locks_history(rule) => history_unlocked
          /\ compliance_tasks' =
                 [compliance_tasks EXCEPT ![task] =
                      IF rec.rule = Len(compliance_config.aml_rules)
                      THEN [rec EXCEPT !.pc = "kyc", !.alerts = r.alerts,
                                       !.rule = 0]
                      ELSE [rec EXCEPT !.alerts = r.alerts,
                                       !.rule = rec.rule + 1]]
          /\ compliance_uuid' = r.uuid
    /\ UNCHANGED <<engine_vars, now, risk_vars, gateway_vars,
                   compliance_config, transaction_history, user_cache,
                   kyc_records, db_transactions, compliance_checks,
                   compliance_alerts, compliance_running,
                   compliance_responses, transactions_all, utc_now,
                   kyc_status_vars, execution_vars>>

\* check_kyc_compliance once its get_kyc_record has returned kyc_record:
\* the alert, if any, is pushed on the task's list
KycChecked(task, kyc_record) ==
    LET rec == compliance_tasks[task]
        alert == check_kyc_compliance(compliance_config, kyc_record,
                                      rec.transaction,
                                      Uuid(compliance_uuid + 1))
    IN /\ compliance_tasks' =
              [compliance_tasks EXCEPT ![task] =
                   [rec EXCEPT !.pc = "sanctions",
                               !.fetched = NoAnswer,
                               !.alerts = IF alert # None
                                          THEN Append(rec.alerts, alert[1])
                                          ELSE rec.alerts]]
       /\ compliance_uuid' =
              IF alert # None THEN compliance_uuid + 1
              ELSE compliance_uuid

\* "KYC verification check", get_kyc_record "Check cache first": a record
\* in the cache is returned and checked; without one the query is sent
KycLookup(task) ==
    /\ Alive(task)
    /\ compliance_tasks[task].pc = "kyc"
    /\ LET cached == cached_kyc_record(user_cache,
                         compliance_tasks[task].transaction.user_id)
       IN IF cached # None
          THEN KycChecked(task, cached)
          ELSE /\ compliance_tasks' =
                      [compliance_tasks EXCEPT ![task].pc = "kyc_query"]
               /\ UNCHANGED compliance_uuid
    /\ UNCHANGED <<engine_vars, now, risk_vars, gateway_vars,
                   compliance_config, transaction_history, user_cache,
                   kyc_records, db_transactions, compliance_checks,
                   compliance_alerts, compliance_running,
                   compliance_responses, transactions_all, utc_now,
                   kyc_status_vars, execution_vars>>

\* "KYC verification check", get_kyc_record "Query database": the store
\* answers with the row it holds now, or fails
KycQuery(task, available) ==
    /\ Alive(task)
    /\ compliance_tasks[task].pc = "kyc_query"
    /\ compliance_tasks' =
           [compliance_tasks EXCEPT
                ![task].pc = "kyc_insert",
                ![task].fetched =
                    fetch_optional(kyc_records,
                                   compliance_tasks[task].transaction.user_id,
                                   available)]
    /\ UNCHANGED <<engine_vars, now, risk_vars, gateway_vars,
                   compliance_config, transaction_history, user_cache,
                   kyc_records, db_transactions, compliance_checks,
                   compliance_alerts, compliance_uuid, compliance_running,
                   compliance_responses, transactions_all, utc_now,
                   kyc_status_vars, execution_vars>>

\* "KYC verification check", get_kyc_record "Update cache": the task
\* resumes on the answer, puts a row it got in the cache over whatever
\* the cache holds by now, and the record is checked
KycInsert(task) ==
    /\ Alive(task)
    /\ compliance_tasks[task].pc = "kyc_insert"
    /\ LET rec == compliance_tasks[task]
           kyc == get_kyc_record(user_cache, rec.fetched,
                                 rec.transaction.user_id)
       IN /\ user_cache' = kyc.user_cache
          /\ KycChecked(task, kyc.record)
    /\ UNCHANGED <<engine_vars, now, risk_vars, gateway_vars,
                   compliance_config, transaction_history, kyc_records,
                   db_transactions, compliance_checks, compliance_alerts,
                   compliance_running, compliance_responses,
                   transactions_all, utc_now, kyc_status_vars,
                   execution_vars>>

\* handle_transaction_compliance, "KYC verification check": one step of
\* check_kyc_compliance between two of its awaits
KycCheck(task, available) ==
    \/ KycLookup(task)
    \/ KycQuery(task, available)
    \/ KycInsert(task)

\* handle_transaction_compliance, "Sanctions screening"
SanctionsCheck(task) ==
    /\ Alive(task)
    /\ compliance_tasks[task].pc = "sanctions"
    /\ LET rec == compliance_tasks[task]
           alert == check_sanctions(rec.transaction,
                                    Uuid(compliance_uuid + 1))
       IN /\ compliance_tasks' =
                 [compliance_tasks EXCEPT ![task] =
                      [rec EXCEPT !.pc = "risk_score",
                                  !.alerts = IF alert # None
                                             THEN Append(rec.alerts, alert[1])
                                             ELSE rec.alerts]]
          /\ compliance_uuid' =
                 IF alert # None THEN compliance_uuid + 1
                 ELSE compliance_uuid
    /\ UNCHANGED <<engine_vars, now, risk_vars, gateway_vars,
                   compliance_config, transaction_history, user_cache,
                   kyc_records, db_transactions, compliance_checks,
                   compliance_alerts, compliance_running,
                   compliance_responses, transactions_all, utc_now,
                   kyc_status_vars, execution_vars>>

\* calculate_risk_score once its get_kyc_record has returned kyc_record:
\* the guard of transaction_history is dropped, the score is the one of
\* the window counted at counted_at, the alert of a high score is pushed,
\* and with no alert to store the handler returns Ok at once; with alerts
\* store_compliance_check draws the check_id of the first and sends its
\* INSERT
Scored(task, kyc_record, counted_at) ==
    LET rec == compliance_tasks[task]
        risk_score == calculate_risk_score(compliance_config,
                                           transaction_history, kyc_record,
                                           rec.transaction, counted_at)
        alert == high_risk_score(compliance_config, risk_score,
                                 rec.transaction,
                                 Uuid(compliance_uuid + 1))
        drawn == IF alert # None THEN compliance_uuid + 1
                 ELSE compliance_uuid
        scored == [rec EXCEPT !.pc = "store_checks",
                              !.risk_score = risk_score,
                              !.fetched = NoAnswer,
                              !.counted_at = 0,
                              !.done = 0,
                              !.alerts = IF alert # None
                                         THEN Append(rec.alerts, alert[1])
                                         ELSE rec.alerts]
    IN IF scored.alerts = <<>>
       THEN /\ compliance_uuid' = drawn
            /\ Returns(task, scored, "Ok")
       ELSE /\ compliance_uuid' = drawn + 1
            /\ compliance_tasks' =
                   [compliance_tasks EXCEPT ![task] =
                        [scored EXCEPT !.check_id = drawn + 1]]
            /\ UNCHANGED compliance_responses

\* "Risk scoring": calculate_risk_score takes the lock of
\* transaction_history, counts the window, and its get_kyc_record looks
\* in the cache: a record there is returned and scored; without one the
\* query is sent with the guard alive
ScoreLookup(task) ==
    /\ Alive(task)
    /\ compliance_tasks[task].pc = "risk_score"
    /\ history_unlocked
    /\ LET cached == cached_kyc_record(user_cache,
                         compliance_tasks[task].transaction.user_id)
       IN IF cached # None
          THEN Scored(task, cached, utc_now)
          ELSE /\ compliance_tasks' =
                      [compliance_tasks EXCEPT
                           ![task].pc = "score_query",
                           ![task].counted_at = utc_now]
               /\ UNCHANGED <<compliance_uuid, compliance_responses>>
    /\ UNCHANGED <<engine_vars, now, risk_vars, gateway_vars,
                   compliance_config, transaction_history, user_cache,
                   kyc_records, db_transactions, compliance_checks,
                   compliance_alerts, compliance_running, transactions_all,
                   utc_now, kyc_status_vars, execution_vars>>

\* "Risk scoring", get_kyc_record "Query database": the store answers
\* with the row it holds now, or fails
ScoreQuery(task, available) ==
    /\ Alive(task)
    /\ compliance_tasks[task].pc = "score_query"
    /\ compliance_tasks' =
           [compliance_tasks EXCEPT
                ![task].pc = "score_insert",
                ![task].fetched =
                    fetch_optional(kyc_records,
                                   compliance_tasks[task].transaction.user_id,
                                   available)]
    /\ UNCHANGED <<engine_vars, now, risk_vars, gateway_vars,
                   compliance_config, transaction_history, user_cache,
                   kyc_records, db_transactions, compliance_checks,
                   compliance_alerts, compliance_uuid, compliance_running,
                   compliance_responses, transactions_all, utc_now,
                   kyc_status_vars, execution_vars>>

\* "Risk scoring", get_kyc_record "Update cache": the task resumes on the
\* answer, puts a row it got in the cache over whatever the cache holds
\* by now, and the record is scored
ScoreInsert(task) ==
    /\ Alive(task)
    /\ compliance_tasks[task].pc = "score_insert"
    /\ LET rec == compliance_tasks[task]
           kyc == get_kyc_record(user_cache, rec.fetched,
                                 rec.transaction.user_id)
       IN /\ user_cache' = kyc.user_cache
          /\ Scored(task, kyc.record, rec.counted_at)
    /\ UNCHANGED <<engine_vars, now, risk_vars, gateway_vars,
                   compliance_config, transaction_history, kyc_records,
                   db_transactions, compliance_checks, compliance_alerts,
                   compliance_running, transactions_all, utc_now,
                   kyc_status_vars, execution_vars>>

\* handle_transaction_compliance, "Risk scoring": one step of
\* calculate_risk_score between two of its awaits
RiskScoring(task, available) ==
    \/ ScoreLookup(task)
    \/ ScoreQuery(task, available)
    \/ ScoreInsert(task)

\* handle_transaction_compliance, "Store compliance checks": the store
\* answers the INSERT of the row of the next alert, whose check_id was
\* drawn before the INSERT was sent.  When the store fails it the handler
\* returns the error, after the row of the last alert it returns Ok, and
\* otherwise store_compliance_check draws the check_id of the following
\* alert and sends its INSERT
StoreChecks(task, available) ==
    /\ Alive(task)
    /\ compliance_tasks[task].pc = "store_checks"
    /\ LET rec == compliance_tasks[task]
           next == rec.done + 1
       IN /\ compliance_checks' =
                 IF available
                 THEN Append(compliance_checks,
                             ComplianceCheck(Uuid(rec.check_id),
                                             rec.transaction,
                                             rec.alerts[next]))
                 ELSE compliance_checks
          /\ IF ~available
             THEN /\ Returns(task, rec, "Err")
                  /\ UNCHANGED compliance_uuid
             ELSE IF next = Len(rec.alerts)
             THEN /\ Returns(task, rec, "Ok")
                  /\ UNCHANGED compliance_uuid
             ELSE /\ compliance_uuid' = compliance_uuid + 1
                  /\ compliance_tasks' =
                         [compliance_tasks EXCEPT
                              ![task].done = next,
                              ![task].check_id = compliance_uuid + 1]
                  /\ UNCHANGED compliance_responses
    /\ UNCHANGED <<engine_vars, now, risk_vars, gateway_vars,
                   compliance_config, transaction_history, user_cache,
                   kyc_records, db_transactions, compliance_alerts,
                   compliance_running, transactions_all, utc_now,
                   kyc_status_vars, execution_vars>>

\* process_transactions publishes the alerts of an Ok in turn: one send.
\* The producer delivers the next alert, or fails and the expect on the
\* send panics the task
PublishAlerts(delivered) ==
    /\ compliance_running
    /\ compliance_tasks["process_transactions"].pc = "publish"
    /\ LET rec == compliance_tasks["process_transactions"]
           next == rec.done + 1
       IN /\ compliance_alerts' =
                 IF delivered THEN Append(compliance_alerts, rec.alerts[next])
                 ELSE compliance_alerts
          /\ compliance_running' = delivered
          /\ compliance_tasks' =
                 [compliance_tasks EXCEPT !["process_transactions"] =
                      IF delivered /\ next < Len(rec.alerts)
                      THEN [rec EXCEPT !.done = next]
                      ELSE [rec EXCEPT !.pc = "idle", !.done = 0]]
    /\ UNCHANGED <<engine_vars, now, risk_vars, gateway_vars,
                   compliance_config, transaction_history, user_cache,
                   kyc_records, db_transactions, compliance_checks,
                   compliance_uuid, compliance_responses, transactions_all,
                   utc_now, kyc_status_vars, execution_vars>>

\* get_kyc_status answers the request: 200 with the record that
\* get_kyc_record returned
KycStatusReturns(user_id, kyc_record) ==
    /\ kyc_status_task' = IdleStatus
    /\ kyc_status_responses' =
           Append(kyc_status_responses,
                  [user_id |-> user_id, status |-> 200,
                   record |-> kyc_record])

\* get_kyc_status receives a GET /kyc/status: without the parameter
\* user_id it answers 400; with it, get_kyc_record looks in the cache,
\* returns a record that is there and sends the query without one
KycStatusRequest(params) ==
    /\ kyc_status_task.pc = "idle"
    /\ Len(kyc_status_responses) < MaxStatusRequests
    /\ IF params = None
       THEN /\ kyc_status_responses' =
                   Append(kyc_status_responses,
                          [user_id |-> "", status |-> 400,
                           record |-> None])
            /\ UNCHANGED kyc_status_task
       ELSE LET cached == cached_kyc_record(user_cache, params[1])
            IN IF cached # None
               THEN KycStatusReturns(params[1], cached)
               ELSE /\ kyc_status_task' =
                           [pc |-> "kyc_query", user_id |-> params[1],
                            fetched |-> NoAnswer]
                    /\ UNCHANGED kyc_status_responses
    /\ UNCHANGED <<engine_vars, now, risk_vars, gateway_vars,
                   compliance_config, transaction_history, user_cache,
                   kyc_records, db_transactions, compliance_checks,
                   compliance_alerts, compliance_tasks, compliance_uuid,
                   compliance_running, compliance_responses,
                   transactions_all, utc_now, execution_vars>>

\* get_kyc_status, get_kyc_record "Query database": the store answers
\* with the row it holds now, or fails
KycStatusQuery(available) ==
    /\ kyc_status_task.pc = "kyc_query"
    /\ kyc_status_task' =
           [kyc_status_task EXCEPT
                !.pc = "kyc_insert",
                !.fetched = fetch_optional(kyc_records,
                                           kyc_status_task.user_id,
                                           available)]
    /\ UNCHANGED <<engine_vars, now, risk_vars, gateway_vars,
                   compliance_config, transaction_history, user_cache,
                   kyc_records, db_transactions, compliance_checks,
                   compliance_alerts, compliance_tasks, compliance_uuid,
                   compliance_running, compliance_responses,
                   transactions_all, utc_now, kyc_status_responses,
                   execution_vars>>

\* get_kyc_status, get_kyc_record "Update cache": the handler resumes on
\* the answer, puts a row it got in the cache and answers
KycStatusInsert ==
    /\ kyc_status_task.pc = "kyc_insert"
    /\ LET kyc == get_kyc_record(user_cache, kyc_status_task.fetched,
                                 kyc_status_task.user_id)
       IN /\ user_cache' = kyc.user_cache
          /\ KycStatusReturns(kyc_status_task.user_id, kyc.record)
    /\ UNCHANGED <<engine_vars, now, risk_vars, gateway_vars,
                   compliance_config, transaction_history, kyc_records,
                   db_transactions, compliance_checks, compliance_alerts,
                   compliance_tasks, compliance_uuid, compliance_running,
                   compliance_responses, transactions_all, utc_now,
                   execution_vars>>

\* the route GET /kyc/status: one step of get_kyc_status between two of
\* its awaits
get_kyc_status(params, available) ==
    \/ KycStatusRequest(params)
    \/ KycStatusQuery(available)
    \/ KycStatusInsert

\* another service writes a row of kyc_records in the store
KycWrite(record) ==
    /\ kyc_records' = Put(kyc_records, record.user_id, record)
    /\ UNCHANGED <<engine_vars, now, risk_vars, gateway_vars,
                   compliance_config, transaction_history, user_cache,
                   db_transactions, compliance_checks, compliance_alerts,
                   compliance_tasks, compliance_uuid, compliance_running,
                   compliance_responses, transactions_all, utc_now,
                   kyc_status_vars, execution_vars>>

\* the clock of the compliance gateway advances by an hour
ComplianceTick ==
    /\ utc_now + HourSecs <= Noon + MaxHours * HourSecs
    /\ utc_now' = utc_now + HourSecs
    /\ UNCHANGED <<engine_vars, now, risk_vars, gateway_vars,
                   compliance_config, transaction_history, user_cache,
                   kyc_records, db_transactions, compliance_checks,
                   compliance_alerts, compliance_tasks, compliance_uuid,
                   compliance_running, compliance_responses,
                   transactions_all, kyc_status_vars, execution_vars>>

\* the n transactions of a user that were handled before the model
\* starts, the last recent of them within the hour before noon
Earlier(user, first, n, recent) ==
    [i \in 1..n |->
         [transaction_id |-> <<"tx", first - i>>, user_id |-> user,
          amount |-> 1, wallet_address |-> None,
          timestamp |-> IF i > n - recent THEN Noon - 1
                        ELSE Noon - 2 * HourSecs]]

\* the compliance gateway as main starts it, over a store that answers or
\* not and a producer that delivers or not: user1 has the sample KYC row,
\* which another service rejects, and user2 has none
InitCompliance ==
    /\ EngineInit
    /\ now = 0
    /\ RiskInit({DefaultRiskConfig})
    /\ GatewayInit({DefaultGatewayConfig})
    /\ ExecutionInit({DefaultExecutionConfig})
    /\ ComplianceInit({DefaultComplianceConfig}, {EmptyMap},
                      {SampleKycRecords}, Noon)

NextCompliance ==
    \/ /\ Begun < MaxTransactions
       /\ \E msg \in Transactions(Begun + 1, {"user1", "user2"}, {50001},
                                  {None}, {Noon}) :
              ProcessTransaction(msg)
    \/ /\ Begun < MaxTransactions
       /\ \E body \in Transactions(Begun + 1, {"user1", "user2"}, {50001},
                                   {None}, {Noon}) :
              ComplianceCheckRequest(body)
    \/ \E task \in Tasks : PushHistory(task)
    \/ \E task \in Tasks, available \in BOOLEAN :
           StoreTransaction(task, available)
    \/ \E task \in Tasks : AmlChecks(task)
    \/ \E task \in Tasks, available \in BOOLEAN : KycCheck(task, available)
    \/ \E task \in Tasks : SanctionsCheck(task)
    \/ \E task \in Tasks, available \in BOOLEAN :
           RiskScoring(task, available)
    \/ \E task \in Tasks, available \in BOOLEAN :
           StoreChecks(task, available)
    \/ \E delivered \in BOOLEAN : PublishAlerts(delivered)
    \/ KycWrite(RejectedKyc)

SpecCompliance == InitCompliance /\ [][NextCompliance]_vars

\* the windows of two users as they are after many transactions: the one
\* of user1 is one short of the limit, the one of user2 holds one
FullWindows ==
    Put(Put(EmptyMap, "user1", Earlier("user1", 0, HistoryLimit - 1, 0)),
        "user2", Earlier("user2", 0 - HistoryLimit, 1, 0))

InitWindow ==
    /\ EngineInit
    /\ now = 0
    /\ RiskInit({DefaultRiskConfig})
    /\ GatewayInit({DefaultGatewayConfig})
    /\ ExecutionInit({DefaultExecutionConfig})
    /\ ComplianceInit({DefaultComplianceConfig, NoMaxPerHourConfig},
                      {FullWindows}, {SampleKycRecords}, Noon)

\* the two tasks on these windows, over a store that answers and a
\* producer that delivers, under the default rules and under a velocity
\* rule that returns before it takes the lock
NextWindow ==
    \/ /\ Begun < MaxAppends
       /\ \E msg \in Transactions(Begun + 1, {"user1", "user2"}, {1},
                                  {None}, {Noon}) :
              ProcessTransaction(msg)
    \/ /\ Begun < MaxAppends
       /\ \E body \in Transactions(Begun + 1, {"user1", "user2"}, {1},
                                   {None}, {Noon}) :
              ComplianceCheckRequest(body)
    \/ \E task \in Tasks : PushHistory(task)
    \/ \E task \in Tasks : StoreTransaction(task, TRUE)
    \/ \E task \in Tasks : AmlChecks(task)
    \/ \E task \in Tasks : KycCheck(task, TRUE)
    \/ \E task \in Tasks : SanctionsCheck(task)
    \/ \E task \in Tasks : RiskScoring(task, TRUE)
    \/ \E task \in Tasks : StoreChecks(task, TRUE)
    \/ PublishAlerts(TRUE)

SpecWindow == InitWindow /\ [][NextWindow]_vars

\* the windows of two users within an hour of trading: user1 has ten
\* transactions of the last hour and two older ones, user2 has nine
BusyWindows ==
    Put(Put(EmptyMap, "user1", Earlier("user1", 0, 12, 10)),
        "user2", Earlier("user2", 0 - 12, 9, 9))

InitVelocity ==
    /\ EngineInit
    /\ now = 0
    /\ RiskInit({DefaultRiskConfig})
    /\ GatewayInit({DefaultGatewayConfig})
    /\ ExecutionInit({DefaultExecutionConfig})
    /\ ComplianceInit({DefaultComplianceConfig}, {BusyWindows},
                      {SampleKycRecords}, Noon)

\* the consumer loop on these windows while the clock advances, over a
\* store that answers and a producer that delivers; the transactions
\* carry the instant they are sent at or an instant an hour before
NextVelocity ==
    \/ /\ Begun < MaxTransactions
       /\ \E msg \in Transactions(Begun + 1, {"user1", "user2"},
                                  {50000, 50001}, {None},
                                  {utc_now - HourSecs, utc_now}) :
              ProcessTransaction(msg)
    \/ PushHistory("process_transactions")
    \/ StoreTransaction("process_transactions", TRUE)
    \/ AmlChecks("process_transactions")
    \/ KycCheck("process_transactions", TRUE)
    \/ SanctionsCheck("process_transactions")
    \/ RiskScoring("process_transactions", TRUE)
    \/ StoreChecks("process_transactions", TRUE)
    \/ PublishAlerts(TRUE)
    \/ ComplianceTick

SpecVelocity == InitVelocity /\ [][NextVelocity]_vars

\* configurations with two rules of type amount and one of type
\* velocity, each enabled or not, under the critical amounts given
AmlConfigs(criticals) ==
    {[risk_thresholds |->
          [transaction_amount_high |-> 1,
           transaction_amount_critical |-> c,
           daily_volume_limit |-> 100000,
           risk_score_threshold |-> 75,
           velocity_threshold |-> 10],
      aml_rules |->
          <<[rule_id |-> "LARGE_TRANSACTION", rule_type |-> "amount",
             parameters |-> [threshold |-> 1], enabled |-> e1],
            [rule_id |-> "LARGER_TRANSACTION", rule_type |-> "amount",
             parameters |-> [threshold |-> 2], enabled |-> e2],
            [rule_id |-> "VELOCITY_CHECK", rule_type |-> "velocity",
             parameters |-> [max_per_hour |-> 10], enabled |-> e3]>>] :
         c \in criticals, e1 \in BOOLEAN, e2 \in BOOLEAN, e3 \in BOOLEAN}

InitRules ==
    /\ EngineInit
    /\ now = 0
    /\ RiskInit({DefaultRiskConfig})
    /\ GatewayInit({DefaultGatewayConfig})
    /\ ExecutionInit({DefaultExecutionConfig})
    /\ ComplianceInit(AmlConfigs({2, 3}), {EmptyMap}, {SampleKycRecords},
                      Noon)

\* the consumer loop under these configurations, over a store that
\* takes every row and answers the KYC queries or not, and a producer
\* that delivers
NextRules ==
    \/ /\ Begun < MaxEvaluations
       /\ \E msg \in Transactions(Begun + 1, {"user1"}, 1..4, {None},
                                  {Noon}) :
              ProcessTransaction(msg)
    \/ PushHistory("process_transactions")
    \/ StoreTransaction("process_transactions", TRUE)
    \/ AmlChecks("process_transactions")
    \/ \E available \in BOOLEAN :
           KycCheck("process_transactions", available)
    \/ SanctionsCheck("process_transactions")
    \/ \E available \in BOOLEAN :
           RiskScoring("process_transactions", available)
    \/ StoreChecks("process_transactions", TRUE)
    \/ PublishAlerts(TRUE)

SpecRules == InitRules /\ [][NextRules]_vars

\* the tables kyc_records that hold no row or one of the rows given
KycTables(rows) ==
    {EmptyMap} \cup {[user_id \in {row.user_id} |-> row] : row \in rows}

\* rows of user1 in the states a KYC record goes through
KycRows ==
    {[user_id |-> "user1", verification_level |-> "basic",
      status |-> "approved", risk_rating |-> "low"],
     [user_id |-> "user1", verification_level |-> "basic",
      status |-> "approved", risk_rating |-> "medium"],
     [user_id |-> "user1", verification_level |-> "enhanced",
      status |-> "approved", risk_rating |-> "high"],
     [user_id |-> "user1", verification_level |-> "basic",
      status |-> "rejected", risk_rating |-> "high"],
     [user_id |-> "user1", verification_level |-> "enhanced",
      status |-> "pending", risk_rating |-> "low"]}

\* the histories in which user1 has none or n transactions of the last
\* hour, for the n given
RecentWindows(counts) ==
    {EmptyMap} \cup
    {Put(EmptyMap, "user1", Earlier("user1", 0, n, n)) : n \in counts}

InitScore ==
    /\ EngineInit
    /\ now = 0
    /\ RiskInit({DefaultRiskConfig})
    /\ GatewayInit({DefaultGatewayConfig})
    /\ ExecutionInit({DefaultExecutionConfig})
    /\ ComplianceInit({DefaultComplianceConfig},
                      RecentWindows({5, 10}), KycTables(KycRows), Noon)

\* the consumer loop on a transaction of user1 under the default
\* configuration, over a store that answers the KYC query or not: amounts
\* at and above the two thresholds, timestamps at the edges of the hours
\* 6 to 22, the early ones more than an hour before the clock
NextScore ==
    \/ /\ Begun < MaxEvaluations
       /\ \E msg \in Transactions(Begun + 1, {"user1"},
                                  {10000, 10001, 50001}, {None},
                                  {6 * HourSecs - 1, 6 * HourSecs,
                                   23 * HourSecs - 1, 23 * HourSecs}) :
              ProcessTransaction(msg)
    \/ PushHistory("process_transactions")
    \/ StoreTransaction("process_transactions", TRUE)
    \/ AmlChecks("process_transactions")
    \/ \E available \in BOOLEAN :
           KycCheck("process_transactions", available)
    \/ SanctionsCheck("process_transactions")
    \/ \E available \in BOOLEAN :
           RiskScoring("process_transactions", available)
    \/ StoreChecks("process_transactions", TRUE)
    \/ PublishAlerts(TRUE)

SpecScore == InitScore /\ [][NextScore]_vars

\* the consumer loop and the two routes POST /compliance/check and GET
\* /kyc/status on user1 while another service rejects the KYC row of
\* user1 in the store or approves it again, over a store that answers
\* the handler of a transaction and a producer that delivers; the scoring
\* of a transaction finds in the cache the record that its KYC check got
NextKyc ==
    \/ /\ Begun < MaxTransactions
       /\ \E msg \in Transactions(Begun + 1, {"user1"}, {10000, 10001},
                                  {None}, {Noon}) :
              ProcessTransaction(msg)
    \/ /\ Begun < MaxTransactions
       /\ \E body \in Transactions(Begun + 1, {"user1"}, {10000, 10001},
                                   {None}, {Noon}) :
              ComplianceCheckRequest(body)
    \/ \E task \in Tasks : PushHistory(task)
    \/ \E task \in Tasks : StoreTransaction(task, TRUE)
    \/ \E task \in Tasks : AmlChecks(task)
    \/ \E task \in Tasks : KycCheck(task, TRUE)
    \/ \E task \in Tasks : SanctionsCheck(task)
    \/ \E task \in Tasks : ScoreLookup(task)
    \/ \E task \in Tasks : StoreChecks(task, TRUE)
    \/ PublishAlerts(TRUE)
    \/ \E params \in {None, Some("user1")}, available \in BOOLEAN :
           get_kyc_status(params, available)
    \/ \E record \in {RejectedKyc, SampleKycRecords["user1"]} :
           KycWrite(record)

SpecKyc == Init /\ [][NextKyc]_vars

\* ------------------------------------- the execution engine's program
\* handle_execution returns the report and the main loop publishes it on
\* fills, keyed by the order id; a failed publish panics
ExecutionReturns(report, delivered) ==
    /\ execution_report' = report
    /\ fills' = produce_message(fills, report.order_id, report, delivered)
    /\ execution_running' = delivered
    /\ execution_pc' = "consume"

\* the main loop consumes the record msg and handle_execution runs up to
\* its first call of the venue
ExecutionConsume(msg, delivered) ==
    /\ execution_running
    /\ execution_pc = "consume"
    /\ execution_consumed < MaxExecutions
    /\ execution_consumed' = execution_consumed + 1
    /\ execution_order' = msg
    /\ execution_attempts' = <<>>
    /\ execution_retries' = 0
    /\ IF decodes_core_order(msg)
       THEN LET rejection == reject_before_execution(
                                 execution_circuit_breaker_state,
                                 execution_config, msg, now)
            IN IF rejection # None
               THEN ExecutionReturns(rejection[1], delivered)
               ELSE /\ execution_pc' = "execute"
                    /\ UNCHANGED <<execution_report, execution_running,
                                   fills>>
       ELSE UNCHANGED <<execution_report, execution_running, fills,
                        execution_pc>>
    /\ UNCHANGED <<engine_vars, now, risk_vars, gateway_vars,
                   compliance_vars, execution_config,
                   execution_circuit_breaker_state, execution_uuid>>

\* the connector answers the call of execute_order: an execution ends
\* the loop, a failure counts one retry and either ends the handler or
\* starts the pause of 100 ms before the next attempt, which no run comes
\* to, for the connector never fails
ExecutionAnswer(delivered) ==
    /\ execution_running
    /\ execution_pc = "execute"
    /\ LET result == execute_order(execution_order)
           turn == retry_loop(result, execution_retries,
                              execution_config.max_retries)
       IN /\ execution_attempts' = Append(execution_attempts, result[1])
          /\ execution_retries' =
                 IF turn = "break" THEN execution_retries
                 ELSE execution_retries + 1
          /\ execution_uuid' =
                 IF turn = "break" THEN execution_uuid + 1
                 ELSE execution_uuid
          /\ IF turn = "break"
             THEN ExecutionReturns(report_execution(execution_order,
                                                    result[2], now),
                                   delivered)
             ELSE IF turn = "return"
             THEN ExecutionReturns(report_failure(execution_order, now),
                                   delivered)
             ELSE /\ execution_pc' = "backoff"
                  /\ UNCHANGED <<execution_report, execution_running,
                                 fills>>
    /\ UNCHANGED <<engine_vars, now, risk_vars, gateway_vars,
                   compliance_vars, execution_config,
                   execution_circuit_breaker_state, execution_consumed,
                   execution_order>>

\* the body of the loop of the execution engine's monitor_circuit_breaker
execution_monitor_circuit_breaker(circuit_breaker_state, t) ==
    IF /\ circuit_breaker_state.cooldown_until # None
       /\ t >= circuit_breaker_state.cooldown_until[1]
    THEN [error_count |-> 0, cooldown_until |-> None]
    ELSE circuit_breaker_state

\* one wake-up of the execution engine's monitor_circuit_breaker task; it
\* takes the state mutex, which the main loop holds while it handles a
\* record
ExecutionMonitor ==
    /\ execution_running
    /\ execution_pc = "consume"
    /\ execution_circuit_breaker_state' =
           execution_monitor_circuit_breaker(
               execution_circuit_breaker_state, now)
    /\ UNCHANGED <<engine_vars, now, risk_vars, gateway_vars,
                   compliance_vars, execution_config, execution_running,
                   execution_consumed, execution_order, execution_report,
                   execution_attempts, execution_retries, execution_pc,
                   execution_uuid, fills>>

\* the execution engine: any retry budget, a threshold that one failure
\* reaches and the one of an unset environment, a venue for BTC/USD or no
\* venue, a producer that delivers or fails
InitExecution ==
    /\ EngineInit
    /\ now = 0
    /\ RiskInit({DefaultRiskConfig})
    /\ GatewayInit({DefaultGatewayConfig})
    /\ ExecutionInit(ExecutionConfigs(0..MaxRetries, {1, 5000},
                                      {NoExchanges, BinanceOnly}))
    /\ ComplianceInit({DefaultComplianceConfig}, {EmptyMap},
                      {SampleKycRecords}, Noon)

NextExecution ==
    \/ \E msg \in CoreOrders(execution_consumed + 1, {"BTC/USD"},
                             {"buy"}, now),
          delivered \in BOOLEAN :
           ExecutionConsume(msg, delivered)
    \/ \E delivered \in BOOLEAN : ExecutionAnswer(delivered)
    \/ ExecutionMonitor

SpecExecution == InitExecution /\ [][NextExecution]_vars

\* ------------------------------------------------------- redelivery
\* the bus delivers the record the engine consumed last a second time
Redeliver ==
    /\ message # NoMessage
    /\ Consume(message)

\* the bus delivers a record of transactions.all a second time
RedeliverTransaction ==
    /\ Begun < MaxTransactions
    /\ \E i \in 1..Len(transactions_all) :
           ProcessTransaction(transactions_all[i])

\* the matching engine and the consumer loop of the compliance gateway
\* on topics that deliver at least once, over a store that answers and a
\* producer that delivers; the scoring of a transaction finds in the cache
\* the record that its KYC check got
NextReplay ==
    \/ \E msg \in Messages(consumed + 1, {"BTC/USD"}, {"Limit"}, {"GTC"}) :
           Consume(msg)
    \/ Redeliver
    \/ /\ Begun < MaxTransactions
       /\ \E msg \in Transactions(Begun + 1, {"user1"}, {50001}, {None},
                                  {Noon}) :
              ProcessTransaction(msg)
    \/ RedeliverTransaction
    \/ PushHistory("process_transactions")
    \/ StoreTransaction("process_transactions", TRUE)
    \/ AmlChecks("process_transactions")
    \/ KycCheck("process_transactions", TRUE)
    \/ SanctionsCheck("process_transactions")
    \/ ScoreLookup("process_transactions")
    \/ StoreChecks("process_transactions", TRUE)
    \/ PublishAlerts(TRUE)

SpecReplay == Init /\ [][NextReplay]_vars

\* ------------------------------------------------- vocabulary of claims
\* the orders resting in one side of the book
Resting(book) ==
    UNION {UNION {{book[s][p][i] : i \in DOMAIN book[s][p]} : p \in DOMAIN book[s]}
           : s \in DOMAIN book}

\* the price levels of one symbol, and the queue of one level
LevelsOf(book, s) == IF s \in DOMAIN book THEN DOMAIN book[s] ELSE {}

QueueOf(book, s, p) == IF p \in LevelsOf(book, s) THEN book[s][p] ELSE <<>>

RECURSIVE SumQty(_)
SumQty(seq) == IF seq = <<>> THEN 0 ELSE seq[1].quantity + SumQty(Tail(seq))

RECURSIVE SumOf(_)
SumOf(S) == IF S = {} THEN 0
            ELSE LET o == CHOOSE x \in S : TRUE IN o.quantity + SumOf(S \ {o})

\* the entries that rest in the book for the order last consumed
OwnEntries ==
    {o \in Resting(buy_orders) \cup Resting(sell_orders) :
        o.order_id = message.order_id}

\* a resting price the order may trade at under its limit
Crosses(order, p) ==
    (order.side = "Buy" /\ p <= order.price) \/ (order.side = "Sell" /\ p >= order.price)

\* a price that is better for the taker than price p
Better(order, q, p) ==
    (order.side = "Buy" /\ q < p) \/ (order.side = "Sell" /\ q > p)

OpposingOf(order, buys, sells) == IF order.side = "Buy" THEN sells ELSE buys

OwnSideOf(order, buys, sells) == IF order.side = "Buy" THEN buys ELSE sells

\* ------------------------------------------------------------------ C1
\* C1 (conservation): after every process_order call the quantities of the
\* returned trades plus the quantity resting in the book for the incoming
\* order add up to the quantity the order came with.
Conservation ==
    consumed > 0 => SumQty(trades) + SumOf(OwnEntries) = message.quantity

\* ------------------------------------------------------------------ C2
\* C2 (price priority): the trades of one call are emitted best maker price
\* first, and no trade is emitted at a price while opposing liquidity at a
\* better price is left resting.
PricePriority ==
    consumed > 0 =>
        /\ \A i, j \in DOMAIN trades :
               i < j => ~Better(message, trades[j].price, trades[i].price)
        /\ \A i \in DOMAIN trades :
               \A q \in LevelsOf(OpposingOf(message, buy_orders, sell_orders),
                                 message.symbol) :
                   ~Better(message, q, trades[i].price)

\* ------------------------------------------------------------------ C3
\* C3 (time priority): in every call and at every price level, a maker is
\* touched only if every maker that arrived before it at that level has been
\* filled and removed; the makers that stay keep their order at the head of
\* the queue, and every queue is in arrival order.
Arrival(o) == o.order_id[2]

InArrivalOrder(book) ==
    \A s \in DOMAIN book : \A p \in DOMAIN book[s] :
        \A i, j \in DOMAIN book[s][p] :
            i < j => Arrival(book[s][p][i]) < Arrival(book[s][p][j])

FifoStep(pre, post) ==
    \A s \in DOMAIN pre : \A p \in DOMAIN pre[s] :
        LET q    == pre[s][p]
            q2   == QueueOf(post, s, p)
            ids2 == {q2[k].order_id : k \in DOMAIN q2}
            kept == SelectSeq(q, LAMBDA o : o.order_id \in ids2)
        IN /\ \A j \in DOMAIN q :
                  (\A k \in DOMAIN q2 : q2[k] # q[j]) =>
                      \A i \in 1..(j - 1) : q[i].order_id \notin ids2
           /\ Len(q2) >= Len(kept)
           /\ \A k \in DOMAIN kept : q2[k].order_id = kept[k].order_id

TimePriority ==
    [][/\ FifoStep(buy_orders, buy_orders')
       /\ FifoStep(sell_orders, sell_orders')
       /\ InArrivalOrder(buy_orders')
       /\ InArrivalOrder(sell_orders')]_vars

\* a maker that was filled in part is still at the head of its queue, with a
\* later arrival waiting behind it
TimePriorityWitness ==
    /\ consumed > 0
    /\ Len(trades) = 1
    /\ \E p \in LevelsOf(OpposingOf(message, buy_orders, sell_orders), message.symbol) :
           LET q == OpposingOf(message, buy_orders, sell_orders)[message.symbol][p]
           IN /\ Len(q) >= 2
              /\ q[1].client_order_id \in {trades[1].buyer_id, trades[1].seller_id}

\* ------------------------------------------------------------------ C4
\* C4 (matching price rule): every trade of a call has a positive quantity,
\* the price of a maker that rested on the opposing side before the call,
\* a quantity no larger than what that maker and the incoming order had left
\* when it was created, the buy side's client_order_id as buyer_id and the
\* sell side's as seller_id.
TradeRule(pre_buys, pre_sells, msg, ts) ==
    \A i \in DOMAIN ts :
        LET t == ts[i]
            before == SumQty(SubSeq(ts, 1, i - 1))
        IN /\ t.quantity > 0
           /\ t.quantity <= msg.quantity - before
           /\ t.symbol = msg.symbol
           /\ IF msg.side = "Buy"
              THEN t.buyer_id = msg.client_order_id
              ELSE t.seller_id = msg.client_order_id
           /\ \E maker \in Resting(OpposingOf(msg, pre_buys, pre_sells)) :
                  /\ maker.symbol = msg.symbol
                  /\ maker.price = t.price
                  /\ t.quantity <= maker.quantity
                  /\ maker.client_order_id =
                         (IF msg.side = "Buy" THEN t.seller_id ELSE t.buyer_id)

MatchingPriceRule ==
    [][TradeRule(buy_orders, sell_orders, message', trades')]_vars

\* a call that traded at two maker prices, the first below the buyer's limit
MatchingPriceRuleWitness ==
    /\ consumed > 0
    /\ Len(trades) = 2
    /\ trades[1].price # trades[2].price
    /\ trades[1].price # message.price

\* ------------------------------------------------------------------ C5
\* C5 (fill-or-kill): a FOK limit order that the crossing liquidity cannot
\* fill completely yields no trade and leaves the book as it was.
Fillable(msg, buys, sells) ==
    SumOf({o \in Resting(OpposingOf(msg, buys, sells)) :
              o.symbol = msg.symbol /\ Crosses(msg, o.price)})

FillOrKill ==
    [][(/\ message'.order_type = "Limit"
        /\ message'.time_in_force = "FOK"
        /\ Fillable(message', buy_orders, sell_orders) < message'.quantity)
       => (/\ trades' = <<>>
           /\ buy_orders' = buy_orders
           /\ sell_orders' = sell_orders)]_vars

\* ------------------------------------------------------------------ C6
\* C6 (book invariant): no resting order has a quantity <= 0 and no price
\* level with an empty queue is left in the bid or the ask map.
WellFormed(book) ==
    \A s \in DOMAIN book : \A p \in DOMAIN book[s] :
        /\ book[s][p] # <<>>
        /\ \A i \in DOMAIN book[s][p] : book[s][p][i].quantity > 0

BookInvariant == WellFormed(buy_orders) /\ WellFormed(sell_orders)

\* the last call filled every maker of a level, and the level is gone
BookInvariantWitness ==
    /\ consumed > 0
    /\ trades # <<>>
    /\ trades[1].price \notin
           LevelsOf(OpposingOf(message, buy_orders, sell_orders), message.symbol)
    /\ LevelsOf(OpposingOf(message, buy_orders, sell_orders), message.symbol) # {}

\* ------------------------------------------------------------------ C7
\* C7 (a market order never rests): after process_order of a market order
\* the book holds no entry for it.
MarketNeverRests ==
    (consumed > 0 /\ message.order_type = "Market") => OwnEntries = {}

\* ------------------------------------------------------------------ C8
\* C8 (a market order skips the price guard): a market order trades best
\* price first whatever its price field says, until it is filled or the
\* opposing side of its symbol is exhausted.
MarketSkipsPriceGuard ==
    (consumed > 0 /\ message.order_type = "Market") =>
        /\ \/ SumQty(trades) = message.quantity
           \/ LevelsOf(OpposingOf(message, buy_orders, sell_orders),
                       message.symbol) = {}
        /\ \A i, j \in DOMAIN trades :
               i < j => ~Better(message, trades[j].price, trades[i].price)

\* ------------------------------------------------------------------ C9
\* C9 (immediate-or-cancel): an IOC limit order leaves no entry in the book,
\* and an order that rests is a limit order with time-in-force GTC.
ImmediateOrCancel ==
    consumed > 0 =>
        /\ (message.order_type = "Limit" /\ message.time_in_force = "IOC")
               => OwnEntries = {}
        /\ OwnEntries # {}
               => (message.order_type = "Limit" /\ message.time_in_force = "GTC")

\* ----------------------------------------------------------------- C10
\* C10 (no cross rests): a limit order with a quantity to rest that crosses
\* no opposing level yields no trade, is appended at the tail of the queue
\* of its price level on its own side, and leaves every other queue of its
\* side, the opposing side and every other symbol as they were.
NoCrossStep(pre_buys, pre_sells, msg, post_buys, post_sells, ts) ==
    LET own  == OwnSideOf(msg, pre_buys, pre_sells)
        own2 == OwnSideOf(msg, post_buys, post_sells)
        opp  == OpposingOf(msg, pre_buys, pre_sells)
        opp2 == OpposingOf(msg, post_buys, post_sells)
    IN (/\ msg.order_type = "Limit"
        /\ msg.quantity > 0
        /\ \A p \in LevelsOf(opp, msg.symbol) : ~Crosses(msg, p))
       => /\ ts = <<>>
          /\ opp2 = opp
          /\ QueueOf(own2, msg.symbol, msg.price)
                 = Append(QueueOf(own, msg.symbol, msg.price),
                          [order_id        |-> msg.order_id,
                           client_order_id |-> msg.client_order_id,
                           symbol          |-> msg.symbol,
                           price           |-> msg.price,
                           quantity        |-> msg.quantity,
                           side            |-> msg.side,
                           order_type      |-> msg.order_type])
          /\ \A s \in Symbols : \A p \in Prices :
                 (s # msg.symbol \/ p # msg.price)
                     => /\ (p \in LevelsOf(own2, s)) = (p \in LevelsOf(own, s))
                        /\ QueueOf(own2, s, p) = QueueOf(own, s, p)

NoCrossRests ==
    [][NoCrossStep(buy_orders, sell_orders, message',
                   buy_orders', sell_orders', trades')]_vars

\* a limit order met an opposing book priced beyond its limit and joined a
\* queue behind an earlier arrival
NoCrossRestsWitness ==
    /\ consumed > 0
    /\ message.order_type = "Limit"
    /\ trades = <<>>
    /\ LevelsOf(OpposingOf(message, buy_orders, sell_orders), message.symbol) # {}
    /\ LET q == QueueOf(OwnSideOf(message, buy_orders, sell_orders),
                        message.symbol, message.price)
       IN /\ Len(q) >= 2
          /\ q[Len(q)].order_id = message.order_id

\* ------------------------------------------ vocabulary of the risk claims
\* the order the risk manager consumed last
LastOrder == risk_consumed[Len(risk_consumed)]

\* the position the risk engine holds for a symbol
HeldPosition(s) == IF s \in DOMAIN positions THEN positions[s] ELSE 0

\* p': the position after the order, for a buy or a sell
Projected(o) ==
    IF o.side = "buy" THEN HeldPosition(o.symbol) + o.quantity
    ELSE HeldPosition(o.symbol) - o.quantity

Magnitude(x) == IF x >= 0 THEN x ELSE 0 - x

TooLong(o, L) == Projected(o) > L.max_long

TooShort(o, L) == Projected(o) < 0 - L.max_short

TooExposed(o, L) == Magnitude(Projected(o)) * o.price > L.max_exposure

\* the order is a buy or a sell on a symbol with a configured limit
Limited(o) ==
    /\ o.symbol \in DOMAIN risk_config.position_limits
    /\ o.side \in {"buy", "sell"}

Breaches(o) ==
    LET L == risk_config.position_limits[o.symbol]
    IN TooLong(o, L) \/ TooShort(o, L) \/ TooExposed(o, L)

BreakerReasons == {<<"circuit_breaker_active">>, <<"circuit_breaker_tripped">>}

\* C11 (risk sanctity): an order on a symbol with a configured limit whose
\* projected position exceeds max_long, falls below -max_short, or whose
\* projected exposure exceeds max_exposure is never approved; when such an
\* order is rejected with the violations of its evaluation and its
\* exposure is over the limit, the list names the exposure violation.
RiskSanctity ==
    (Len(risk_consumed) > 0 /\ Limited(LastOrder) /\ Breaches(LastOrder)) =>
        /\ risk_result.status = "rejected"
        /\ risk_result.order_id = LastOrder.order_id
        /\ (/\ risk_result.violations \notin BreakerReasons
            /\ TooExposed(LastOrder,
                          risk_config.position_limits[LastOrder.symbol]))
           => \E i \in DOMAIN risk_result.violations :
                  risk_result.violations[i][1] = "Exposure would exceed limit"

\* a buy whose only breach is its exposure has been rejected for it
RiskSanctityWitness ==
    /\ Len(risk_consumed) > 0
    /\ Limited(LastOrder)
    /\ LastOrder.side = "buy"
    /\ ~TooLong(LastOrder, risk_config.position_limits[LastOrder.symbol])
    /\ TooExposed(LastOrder, risk_config.position_limits[LastOrder.symbol])
    /\ risk_result.status = "rejected"
    /\ risk_result.violations \notin BreakerReasons
    /\ Len(orders_validated) > 0

\* the orders of one symbol and side that were published as approved
Approved(s, side) ==
    {risk_consumed[i] : i \in
        {k \in DOMAIN risk_consumed :
            /\ risk_consumed[k].symbol = s
            /\ risk_consumed[k].side = side
            /\ \E j \in DOMAIN orders_validated :
                   orders_validated[j].order_id = risk_consumed[k].order_id}}

\* C12 (reservation on approval): with no fill in between, the held
\* position plus the total quantity of the approved buy orders of a symbol
\* never exceeds max_long, and the held position minus the total quantity
\* of the approved sell orders never falls below -max_short.
Reservation ==
    \A s \in DOMAIN risk_config.position_limits :
        LET L == risk_config.position_limits[s]
        IN /\ HeldPosition(s) + SumOf(Approved(s, "buy")) <= L.max_long
           /\ HeldPosition(s) - SumOf(Approved(s, "sell")) >= 0 - L.max_short

\* the records published on a topic for one order
PublishedFor(topic, o) ==
    {j \in DOMAIN topic : topic[j].order_id = o.order_id}

\* the status and the violation list of a published record agree with its
\* topic
SplitByStatus ==
    /\ \A j \in DOMAIN orders_validated :
           /\ orders_validated[j].status = "approved"
           /\ orders_validated[j].violations = <<>>
    /\ \A j \in DOMAIN orders_rejected :
           /\ orders_rejected[j].status = "rejected"
           /\ orders_rejected[j].violations # <<>>

\* every order consumed and decoded has exactly one published record
OnePerOrder ==
    \A i \in DOMAIN risk_consumed :
        decodes_core_order(risk_consumed[i]) =>
            Cardinality(PublishedFor(orders_validated, risk_consumed[i]))
            + Cardinality(PublishedFor(orders_rejected, risk_consumed[i])) = 1

\* C13 (risk gate split): for every order the risk gate consumes and
\* decodes exactly one RiskValidation is published, on orders.validated
\* if and only if its status is approved and on orders.rejected otherwise;
\* an approved record has an empty violation list and a rejected record a
\* non-empty one.
RiskGateSplit == OnePerOrder /\ SplitByStatus

\* ------------------------------------------------- the breaker's claims
\* the breaker of the risk manager is set and its cooldown has not passed
BreakerActive ==
    /\ risk_circuit_breaker_state.cooldown_until # None
    /\ now < risk_circuit_breaker_state.cooldown_until[1]

\* the breaker is set and its cooldown has passed
BreakerExpired ==
    /\ risk_circuit_breaker_state.cooldown_until # None
    /\ now >= risk_circuit_breaker_state.cooldown_until[1]

\* the step is one call of handle_risk_check
Handled == risk_consumed' # risk_consumed

\* the number of limits the order breaches
Breached(o) ==
    IF Limited(o)
    THEN LET L == risk_config.position_limits[o.symbol]
         IN (IF TooLong(o, L) THEN 1 ELSE 0)
            + (IF TooShort(o, L) THEN 1 ELSE 0)
            + (IF TooExposed(o, L) THEN 1 ELSE 0)
    ELSE 0

BreakerUntouched ==
    /\ risk_circuit_breaker_state' = risk_circuit_breaker_state
    /\ risk_tripped' = risk_tripped

\* what a call of handle_risk_check does to the breaker
TripRule ==
    Handled =>
        LET o == risk_consumed'[Len(risk_consumed')]
        IN IF BreakerActive
           THEN /\ risk_result'.status = "rejected"
                /\ risk_result'.violations = <<"circuit_breaker_active">>
                /\ risk_violations' = risk_violations
                /\ BreakerUntouched
           ELSE IF Breached(o) >= risk_config.circuit_breaker_threshold
           THEN /\ risk_circuit_breaker_state'.cooldown_until =
                       <<now + CooldownSecs>>
                /\ risk_tripped' = risk_tripped + 1
                /\ risk_result'.status = "rejected"
           ELSE BreakerUntouched

\* C14 (circuit-breaker trip): when the number of violations of a single
\* order reaches circuit_breaker_threshold, the same call sets
\* cooldown_until to now + 300 s and increments the trip counter; every
\* order handled while now < cooldown_until is rejected with
\* circuit_breaker_active, with no violation counted and the breaker left
\* as it was; an order below the threshold does not trip.
BreakerTrip == [][TripRule]_vars

\* an order has tripped the breaker with a positive threshold and a later
\* order was turned away while it was cooling down
BreakerTripWitness ==
    /\ risk_config.circuit_breaker_threshold = 2
    /\ risk_tripped = 1
    /\ BreakerActive
    /\ Len(risk_consumed) = 2
    /\ risk_result.violations = <<"circuit_breaker_active">>
    /\ risk_result.timestamp > 0

\* what a call of handle_risk_check returns once the cooldown has passed,
\* and what any other step may do to the breaker
ExitRule ==
    /\ (Handled /\ BreakerExpired) =>
           LET o == risk_consumed'[Len(risk_consumed')]
           IN /\ risk_result'.violations # <<"circuit_breaker_active">>
              /\ IF Breached(o) >= risk_config.circuit_breaker_threshold
                 THEN risk_result'.violations = <<"circuit_breaker_tripped">>
                 ELSE /\ Len(risk_result'.violations) = Breached(o)
                      /\ risk_result'.status = "approved" <=> Breached(o) = 0
    /\ (~Handled /\ risk_circuit_breaker_state' # risk_circuit_breaker_state)
           => /\ BreakerExpired
              /\ risk_circuit_breaker_state' =
                     [error_count |-> 0, cooldown_until |-> <<>>]

\* C15 (circuit-breaker exit): once now >= cooldown_until an order is
\* evaluated against the limits again and is not rejected with
\* circuit_breaker_active, whether or not the monitor task has run; the
\* monitor task changes the breaker only when now >= cooldown_until, and
\* then to cooldown_until = None and error_count = 0.
BreakerExit == [][ExitRule]_vars

\* the cooldown has passed, the monitor task has not cleared the breaker,
\* and an order handled after the cooldown was approved
BreakerExitWitness ==
    /\ risk_tripped = 1
    /\ BreakerExpired
    /\ risk_result.status = "approved"
    /\ risk_result.timestamp >= risk_circuit_breaker_state.cooldown_until[1]

\* the monitor task has cleared a breaker that had tripped
BreakerClearedWitness ==
    /\ risk_tripped = 1
    /\ risk_circuit_breaker_state = [error_count |-> 0, cooldown_until |-> <<>>]

\* ------------------------------------------------- the gateway's claims
\* the step is one request handled by the gateway
Submitted == gateway_handled' # gateway_handled

\* C16 (gateway submit): handling a request publishes exactly one record
\* on orders.incoming when the response is accepted and none when it is
\* rejected.
GatewaySubmit ==
    [][Submitted =>
          Len(orders_incoming') - Len(orders_incoming) =
              IF gateway_response'.status = "accepted" THEN 1 ELSE 0]_vars

\* the ids of the orders the gateway has accepted
AcceptedIds ==
    {orders_incoming[j].order_id : j \in
        {k \in DOMAIN orders_incoming :
            /\ "status" \in DOMAIN orders_incoming[k]
            /\ orders_incoming[k].status = "accepted"}}

\* every record published so far has been consumed downstream
Drained ==
    /\ Len(risk_consumed) = Len(orders_incoming)
    /\ consumed = Len(orders_validated)

\* the accepted order is on orders.incoming as an Order enriched with its
\* order_id and user_id
PublishedAsOrder(id) ==
    \E j \in DOMAIN orders_incoming :
        /\ orders_incoming[j].order_id = id
        /\ {"symbol", "price", "quantity", "side", "user_id"}
               \subseteq DOMAIN orders_incoming[j]

EvaluatedByRisk(id) ==
    \E j \in DOMAIN orders_validated \cup DOMAIN orders_rejected :
        \/ j \in DOMAIN orders_validated /\ orders_validated[j].order_id = id
        \/ j \in DOMAIN orders_rejected /\ orders_rejected[j].order_id = id

ApprovedByRisk(id) ==
    \E j \in DOMAIN orders_validated : orders_validated[j].order_id = id

ReachedBook(id) ==
    \E o \in Resting(buy_orders) \cup Resting(sell_orders) : o.order_id = id

\* C17 (end-to-end data flow): an order the gateway accepts is published
\* on orders.incoming as an enriched Order; once the topics are drained it
\* has been evaluated by the risk gate, and if it was approved it has been
\* handed to process_order and is in the engine's book.
EndToEnd ==
    \A id \in AcceptedIds :
        /\ PublishedAsOrder(id)
        /\ Drained => /\ EvaluatedByRisk(id)
                      /\ ApprovedByRisk(id) => ReachedBook(id)

\* the request fails one of the five tests of the validator
Malformed(r) ==
    \/ r.price <= 0
    \/ r.quantity <= 0
    \/ r.symbol = ""
    \/ r.side \notin {"buy", "sell"}
    \/ r.order_type \notin {"limit", "market", "stop", "stop_limit"}

ValidationReasons ==
    {"validation_error: InvalidPrice", "validation_error: InvalidQuantity",
     "validation_error: InvalidSymbol", "validation_error: InvalidSide",
     "validation_error: InvalidOrderType"}

\* the gateway's breaker is set and its cooldown has not passed
GatewayBreakerActive ==
    /\ gateway_circuit_breaker_state.cooldown_until # <<>>
    /\ now < gateway_circuit_breaker_state.cooldown_until[1]

\* the admissions the rate limiter still counts at this instant
Counted ==
    {i \in DOMAIN gateway_requests : now - gateway_requests[i] <= WindowSecs}

LimiterFull == Cardinality(Counted) >= gateway_config.rate_limit

\* the response to the request handled in this step, by the first test
\* that fails
OrderedRejection ==
    Submitted =>
        LET r == gateway_request'
        IN IF GatewayBreakerActive
           THEN /\ gateway_response'.status = "rejected"
                /\ gateway_response'.reason = "circuit_breaker_active"
                /\ gateway_requests' = gateway_requests
           ELSE IF Malformed(r)
           THEN /\ gateway_response'.status = "rejected"
                /\ gateway_response'.reason \in ValidationReasons
                /\ gateway_requests' = gateway_requests
           ELSE IF LimiterFull
           THEN /\ gateway_response'.status = "rejected"
                /\ gateway_response'.reason = "rate_limit_exceeded"
           ELSE /\ gateway_response'.status = "accepted"
                /\ gateway_response'.reason = "order_received"

\* C18 (gateway rejection order): the tests run in the order circuit
\* breaker, validation, rate limit, and a rejected response carries the
\* reason of the first test that fails; a request turned away by an
\* earlier test does not reach the rate limiter.
RejectionOrder == [][OrderedRejection]_vars

\* a malformed request arrived while the rate limiter had no room and the
\* breaker was clear: the reason is the validation error
RejectionOrderWitness ==
    /\ gateway_handled > 0
    /\ ~GatewayBreakerActive
    /\ Malformed(gateway_request)
    /\ gateway_config.rate_limit = 0
    /\ gateway_response.reason \in ValidationReasons

\* a malformed request arrived while the breaker was cooling down and the
\* rate limiter had no room: the reason is the breaker
RejectionOrderBreakerWitness ==
    /\ gateway_handled > 0
    /\ GatewayBreakerActive
    /\ Malformed(gateway_request)
    /\ gateway_config.rate_limit = 0
    /\ gateway_response.reason = "circuit_breaker_active"

\* C19 (validation soundness): a request with price <= 0, quantity <= 0,
\* an empty symbol, a side outside {buy, sell} or an order_type outside
\* {limit, market, stop, stop_limit} gets the response rejected, and
\* validate_order returns Ok exactly for the requests with none of these.
ValidationSoundness ==
    gateway_handled > 0 =>
        /\ Malformed(gateway_request) => gateway_response.status = "rejected"
        /\ validate_order(gateway_request) = <<"Ok">>
               <=> ~Malformed(gateway_request)

\* a request whose only fault is its quantity was rejected for it while
\* the breaker was clear and the rate limiter had room
ValidationSoundnessWitness ==
    /\ gateway_handled = 1
    /\ ~GatewayBreakerActive
    /\ gateway_config.rate_limit = 1
    /\ gateway_request.quantity = 0
    /\ gateway_request.price = 1
    /\ gateway_request.symbol = "BTC/USD"
    /\ gateway_request.side = "sell"
    /\ gateway_request.order_type = "stop_limit"
    /\ gateway_response.status = "rejected"
    /\ gateway_response.reason = "validation_error: InvalidQuantity"

\* the responses on orders.incoming that admitted a request
Admitted ==
    {j \in DOMAIN orders_incoming : orders_incoming[j].status = "accepted"}

\* no window of width W that opens at an admission holds more than N
\* admissions, and the limiter never counts more than N
WindowBound ==
    /\ \A j \in Admitted :
           Cardinality({k \in Admitted :
               /\ orders_incoming[j].timestamp <= orders_incoming[k].timestamp
               /\ orders_incoming[k].timestamp
                      <= orders_incoming[j].timestamp + WindowSecs})
           <= gateway_config.rate_limit
    /\ Len(gateway_requests) <= gateway_config.rate_limit

StillCounted(e) == now - e <= WindowSecs

\* what check does for a well-formed request
CheckRule ==
    LET kept == SelectSeq(gateway_requests, StillCounted)
    IN IF Len(kept) = gateway_config.rate_limit
       THEN /\ gateway_response'.status = "rejected"
            /\ gateway_response'.reason = "rate_limit_exceeded"
            /\ gateway_requests' = kept
       ELSE /\ gateway_response'.status = "accepted"
            /\ gateway_requests' = Append(kept, now)

\* C20 (rate limiting): at non-decreasing times, the admitted calls whose
\* timestamps fall inside any window of width W = 60 s never number more
\* than N = max_requests; check returns Err exactly when N admissions
\* remain after the entries older than W are evicted, and otherwise
\* records now and returns Ok.
RateLimiting ==
    [][/\ (Submitted /\ ~Malformed(gateway_request')) => CheckRule
       /\ WindowBound']_vars

\* with N = 1: a request admitted at 0, one refused at 60 while the first
\* admission is exactly W old, and one admitted at 90 after its eviction
RateLimitingWitness ==
    /\ gateway_config.rate_limit = 1
    /\ Len(orders_incoming) = 3
    /\ orders_incoming[1].status = "accepted"
    /\ orders_incoming[1].timestamp = 0
    /\ orders_incoming[2].reason = "rate_limit_exceeded"
    /\ orders_incoming[2].timestamp = 60
    /\ orders_incoming[3].status = "accepted"
    /\ orders_incoming[3].timestamp = 90
    /\ gateway_requests = <<90>>

\* -------------------------------------- the compliance gateway's claims
Users == {"user1", "user2"}

\* the window the history holds for a user, empty when it holds none
WindowOf(history, user) ==
    IF user \in DOMAIN history THEN history[user] ELSE <<>>

\* the last n elements of a sequence, in their order
LastOf(s, n) == SubSeq(s, Len(s) - Min(Len(s), n) + 1, Len(s))

\* the step is the one in which the task appends its transaction
Appends(task) ==
    /\ compliance_tasks[task].pc = "push_history"
    /\ compliance_tasks'[task].pc = "store_transaction"

\* ----------------------------------------------------------------- C21
\* C21: whichever of the consumer loop and the HTTP handler takes the
\* next step, no window holds more than 1,000 transactions after it; a
\* step that appends a transaction leaves its user's window equal to the
\* last 1,000 of the old window followed by the transaction, in that
\* order, and every other user's window as it was; a step that appends
\* nothing leaves every window as it was.
WindowRule ==
    /\ \A user \in Users :
           Len(WindowOf(transaction_history', user)) <= HistoryLimit
    /\ IF \E task \in Tasks : Appends(task)
       THEN \E task \in Tasks :
                /\ Appends(task)
                /\ LET t == compliance_tasks'[task].transaction
                   IN \A user \in Users :
                          WindowOf(transaction_history', user) =
                              IF user = t.user_id
                              THEN LastOf(Append(WindowOf(transaction_history,
                                                          user), t),
                                          HistoryLimit)
                              ELSE WindowOf(transaction_history, user)
       ELSE transaction_history' = transaction_history

HistoryWindow == [][WindowRule]_vars

\* both tasks are inside the handler, past their append, and the window
\* of user1 is full after its oldest transaction was evicted
HistoryWindowWitness ==
    /\ \A task \in Tasks :
           compliance_tasks[task].pc \notin {"idle", "push_history"}
    /\ Len(WindowOf(transaction_history, "user1")) = HistoryLimit
    /\ WindowOf(transaction_history, "user1")[1].transaction_id
           = <<"tx", 0 - 2>>
    /\ WindowOf(transaction_history, "user1")[HistoryLimit].transaction_id
           = <<"tx", 2>>

\* the step takes the task from one place of the handler to the next
Evaluates(task, from, to) ==
    /\ compliance_tasks[task].pc = from
    /\ compliance_tasks'[task].pc = to

\* the alerts the step pushed on the task's list
NewAlerts(task) ==
    SubSeq(compliance_tasks'[task].alerts,
           Len(compliance_tasks[task].alerts) + 1,
           Len(compliance_tasks'[task].alerts))

\* the alerts of a list that carry the type
OfType(alerts, type) ==
    {i \in 1..Len(alerts) : alerts[i].alert_type = type}

\* ----------------------------------------------------------------- C22
\* the step is the pass of the task's AML loop on its next rule
RunsRule(task) ==
    /\ compliance_tasks[task].pc = "aml"
    /\ compliance_tasks'[task].pc \in {"aml", "kyc"}
    /\ compliance_tasks'[task] # compliance_tasks[task]

\* C22: when a task runs the AML checks on transaction t, every enabled
\* rule of type amount emits an alert exactly when t.amount is above the
\* rule's threshold, its severity is critical when t.amount is above
\* transaction_amount_critical and high otherwise, and a disabled rule
\* emits none.
AmountRuleHolds(task) ==
    LET t == compliance_tasks[task].transaction
        rule == compliance_config.aml_rules[compliance_tasks[task].rule]
        new == NewAlerts(task)
        emitted == OfType(new, rule.rule_id)
    IN rule.rule_type = "amount" =>
           /\ rule.enabled =>
                  (emitted # {} <=> t.amount > rule.parameters.threshold)
           /\ ~rule.enabled => emitted = {}
           /\ Len(new) <= 1
           /\ \A i \in 1..Len(new) :
                  /\ new[i].alert_type = rule.rule_id
                  /\ new[i].transaction_id = t.transaction_id
                  /\ new[i].severity =
                         IF t.amount > compliance_config
                                .risk_thresholds
                                .transaction_amount_critical
                         THEN "critical" ELSE "high"

AmountRule ==
    [][\A task \in Tasks : RunsRule(task) => AmountRuleHolds(task)]_vars

\* the AML checks have run on a transaction above one enabled rule's
\* threshold and the critical amount and above a disabled rule's
\* threshold: the alerts so far are the one critical alert of the enabled
\* rule
AmountRuleWitness ==
    LET rec == compliance_tasks["process_transactions"]
        rules == compliance_config.aml_rules
    IN /\ rec.pc = "kyc"
       /\ rec.transaction.amount = 3
       /\ compliance_config.risk_thresholds.transaction_amount_critical = 2
       /\ ~rules[1].enabled /\ rules[2].enabled /\ ~rules[3].enabled
       /\ Len(rec.alerts) = 1
       /\ rec.alerts[1].alert_type = "LARGER_TRANSACTION"
       /\ rec.alerts[1].severity = "critical"

\* the number of the user's transactions in the window that lie within
\* the last hour
HourlyCount(user) == recent_count(WindowOf(transaction_history, user), utc_now)

\* ----------------------------------------------------------------- C23
\* C23: under the default configuration, the AML checks on a transaction
\* of amount 50,000 emit a LARGE_TRANSACTION alert of severity critical,
\* and when its user has 11 transactions in the last hour they also emit
\* a VELOCITY_CHECK alert of severity medium.
ScenarioS5Holds(task) ==
    LET t == compliance_tasks[task].transaction
        new == compliance_tasks'[task].alerts
    IN t.amount = 50000 =>
           /\ \E i \in OfType(new, "LARGE_TRANSACTION") :
                  new[i].severity = "critical"
           /\ HourlyCount(t.user_id) = 11 =>
                  \E i \in OfType(new, "VELOCITY_CHECK") :
                      new[i].severity = "medium"

ScenarioS5 ==
    [][\A task \in Tasks :
           Evaluates(task, "aml", "kyc") => ScenarioS5Holds(task)]_vars

\* ----------------------------------------------------------------- C24
\* the transactions of the user, in whichever window they lie, whose
\* timestamp is within the hour before the clock
OwnRecent(user) ==
    {<<u, i>> \in Users \X (1..(HistoryLimit + 1)) :
         /\ i <= Len(WindowOf(transaction_history, u))
         /\ transaction_history[u][i].user_id = user
         /\ transaction_history[u][i].timestamp > utc_now - HourSecs}

\* C24: when a task runs the AML checks on transaction t, which is in its
\* user's window by then, an enabled rule of type velocity emits an alert
\* exactly when more than max_per_hour transactions of that user in the
\* window lie within the last hour, the alert is of severity medium, and
\* no transaction of another user is counted.
VelocityRuleHolds(task) ==
    LET t == compliance_tasks[task].transaction
        rule == compliance_config.aml_rules[compliance_tasks[task].rule]
        new == NewAlerts(task)
        window == WindowOf(transaction_history, t.user_id)
        emitted == OfType(new, rule.rule_id)
    IN /\ \E i \in 1..Len(window) : window[i] = t
       /\ \A i \in 1..Len(window) : window[i].user_id = t.user_id
       /\ rule.rule_type = "velocity" /\ rule.enabled =>
              /\ emitted # {} <=>
                     Cardinality(OwnRecent(t.user_id)) >
                         rule.parameters.max_per_hour
              /\ Len(new) <= 1
              /\ \A i \in 1..Len(new) :
                     /\ new[i].alert_type = rule.rule_id
                     /\ new[i].severity = "medium"

VelocityRule ==
    [][\A task \in Tasks : RunsRule(task) => VelocityRuleHolds(task)]_vars

\* the AML checks have run on a transaction of user1 and emitted the
\* alert: eleven of the fourteen transactions in the window of user1 lie
\* within the last hour, next to nine of user2
VelocityRuleWitness ==
    LET rec == compliance_tasks["process_transactions"]
    IN /\ rec.pc = "kyc"
       /\ rec.transaction.user_id = "user1"
       /\ Cardinality(OwnRecent("user1")) = 11
       /\ Cardinality(OwnRecent("user2")) = 9
       /\ Len(WindowOf(transaction_history, "user1")) = 14
       /\ OfType(rec.alerts, "VELOCITY_CHECK") # {}

\* ----------------------------------------------------------------- C25
\* the step is the one in which the KYC check of the task's transaction
\* gets its record and raises its alert
FinishesKyc(task) ==
    /\ compliance_tasks[task].pc \in {"kyc", "kyc_insert"}
    /\ compliance_tasks'[task].pc = "sanctions"

\* the step is the one in which the risk scoring of the task's
\* transaction gets its record and the score is set
FinishesScoring(task) ==
    /\ compliance_tasks[task].pc \in {"risk_score", "score_insert"}
    /\ compliance_tasks'[task].pc \in {"store_checks", "publish", "idle"}

\* the record that the lookup which ends in the step found for the
\* task's user: the one in the cache, or else the row the store answered
\* with; None when it found none
Found(task) ==
    LET rec == compliance_tasks[task]
    IN IF rec.pc \in {"kyc", "risk_score"}
       THEN IF rec.transaction.user_id \in DOMAIN user_cache
            THEN Some(user_cache[rec.transaction.user_id]) ELSE None
       ELSE IF rec.fetched[1] = "Ok" THEN rec.fetched[2] ELSE None

KycAlertTypes ==
    {"NO_KYC_RECORD", "KYC_NOT_APPROVED", "ENHANCED_KYC_REQUIRED"}

\* the type and severity of the KYC alert the claim assigns, or None
KycAlertFor(found, t) ==
    IF found = None THEN Some(<<"NO_KYC_RECORD", "critical">>)
    ELSE IF found[1].status # "approved"
    THEN Some(<<"KYC_NOT_APPROVED", "high">>)
    ELSE IF /\ found[1].verification_level = "basic"
            /\ t.amount > compliance_config.risk_thresholds
                              .transaction_amount_high
    THEN Some(<<"ENHANCED_KYC_REQUIRED", "medium">>)
    ELSE None

\* C25: the KYC check of a transaction emits at most one alert: critical
\* NO_KYC_RECORD when the lookup finds no record of the user, high
\* KYC_NOT_APPROVED when the record's status is not approved, medium
\* ENHANCED_KYC_REQUIRED when the record is approved with level basic and
\* the amount is above transaction_amount_high, and none for any other
\* approved record.
KycCheckHolds(task) ==
    LET t == compliance_tasks[task].transaction
        new == NewAlerts(task)
        due == KycAlertFor(Found(task), t)
    IN /\ Len(new) <= 1
       /\ due = None <=> Len(new) = 0
       /\ \A i \in 1..Len(new) :
              /\ <<new[i].alert_type, new[i].severity>> = due[1]
              /\ new[i].transaction_id = t.transaction_id
       /\ \A i \in 1..Len(compliance_tasks[task].alerts) :
              compliance_tasks[task].alerts[i].alert_type \notin KycAlertTypes

KycCheckRule ==
    [][\A task \in Tasks :
           FinishesKyc(task) => KycCheckHolds(task)]_vars

\* the KYC check has run on a transaction above the high amount for a
\* user whose row is approved with level basic, and the one KYC alert is
\* ENHANCED_KYC_REQUIRED of severity medium
KycCheckWitness ==
    LET rec == compliance_tasks["process_transactions"]
        last == rec.alerts[Len(rec.alerts)]
    IN /\ rec.pc = "sanctions"
       /\ rec.transaction.amount = 10001
       /\ "user1" \in DOMAIN kyc_records
       /\ kyc_records["user1"].status = "approved"
       /\ kyc_records["user1"].verification_level = "basic"
       /\ "user1" \in DOMAIN user_cache
       /\ Len(rec.alerts) > 0
       /\ last.alert_type = "ENHANCED_KYC_REQUIRED"
       /\ last.severity = "medium"
       /\ Cardinality({i \in 1..Len(rec.alerts) :
                           rec.alerts[i].alert_type \in KycAlertTypes}) = 1

\* ----------------------------------------------------------------- C26
\* the sum of the parts of the score that the claim lists, for the
\* transaction, the number of its user's transactions of the last hour
\* and the record the lookup found
ScoreParts(t, count, found) ==
    (IF t.amount > compliance_config.risk_thresholds.transaction_amount_high
     THEN 30 ELSE 0)
    + (IF t.amount >
          compliance_config.risk_thresholds.transaction_amount_critical
       THEN 40 ELSE 0)
    + (IF count > 5 THEN 20 ELSE 0)
    + (IF count > 10 THEN 30 ELSE 0)
    + (IF hour(t.timestamp) \notin 6..22 THEN 10 ELSE 0)
    + (IF found = None THEN 50
       ELSE IF found[1].risk_rating = "high" THEN 25
       ELSE IF found[1].risk_rating = "medium" THEN 10
       ELSE 0)

\* C26: the risk score computed for a transaction lies in 0..100 and is
\* the smaller of 100 and the sum of 30 for an amount above high, 40 more
\* for one above critical, 20 for an hourly count above 5, 30 more above
\* 10, 10 for an hour outside 6..22, and 25, 10 or 50 for a high or medium
\* KYC rating or no KYC record; a HIGH_RISK_SCORE alert of severity high
\* is emitted exactly when the score is above risk_score_threshold.
RiskScoreHolds(task) ==
    LET t == compliance_tasks[task].transaction
        score == compliance_tasks'[task].risk_score
        new == NewAlerts(task)
        sum == ScoreParts(t, Cardinality(OwnRecent(t.user_id)),
                          Found(task))
    IN /\ score \in 0..100
       /\ score = Min(100, sum)
       /\ Len(new) <= 1
       /\ Len(new) = 1 <=>
              score > compliance_config.risk_thresholds.risk_score_threshold
       /\ \A i \in 1..Len(new) :
              /\ new[i].alert_type = "HIGH_RISK_SCORE"
              /\ new[i].severity = "high"
              /\ new[i].transaction_id = t.transaction_id

RiskScore ==
    [][\A task \in Tasks :
           FinishesScoring(task) => RiskScoreHolds(task)]_vars

\* the score of a transaction above the critical amount, the eleventh of
\* its user's hour, at 23 o'clock and without a KYC record is capped at
\* 100 and the alert is emitted
RiskScoreWitness ==
    LET rec == compliance_tasks["process_transactions"]
    IN /\ rec.pc = "store_checks"
       /\ rec.transaction.amount = 50001
       /\ hour(rec.transaction.timestamp) = 23
       /\ Cardinality(OwnRecent("user1")) = 11
       /\ kyc_records = EmptyMap
       /\ rec.risk_score = 100
       /\ rec.alerts[Len(rec.alerts)].alert_type = "HIGH_RISK_SCORE"

\* the score of a transaction is exactly the threshold of 75 (30 for the
\* amount, 20 for the count, 25 for the rating) and no alert is emitted
RiskScoreAtThreshold ==
    LET rec == compliance_tasks["process_transactions"]
    IN /\ rec.pc = "store_checks"
       /\ rec.risk_score = 75
       /\ OfType(rec.alerts, "HIGH_RISK_SCORE") = {}

\* ----------------------------------------------------------------- C27
\* the alerts that left the evaluator: published on compliance.alerts or
\* returned in a response of POST /compliance/check
Released ==
    {compliance_alerts[i] : i \in 1..Len(compliance_alerts)} \cup
    UNION {{compliance_responses[i].alerts[j] :
                j \in 1..Len(compliance_responses[i].alerts)} :
               i \in 1..Len(compliance_responses)}

\* a ComplianceCheck row is persisted for the transaction and the rule
CheckRows(transaction_id) ==
    {i \in 1..Len(compliance_checks) :
         compliance_checks[i].transaction_id = transaction_id}

\* the task has come to the end of the handler for its transaction
Evaluated(task) ==
    /\ compliance_tasks[task].result # "none"
    /\ compliance_tasks[task].pc \in {"idle", "publish"}

\* every alert that left the evaluator has a row of its transaction and
\* rule in the store
CheckedBeforeRelease ==
    \A alert \in Released :
        \E i \in CheckRows(alert.transaction_id) :
            compliance_checks[i].rule_name = alert.alert_type

\* every transaction whose evaluation is over and for which a rule fired
\* has a row in the store
CheckedWhenFired ==
    \A task \in Tasks :
        Evaluated(task) /\ Len(compliance_tasks[task].alerts) > 0 =>
            CheckRows(compliance_tasks[task].transaction.transaction_id) # {}

\* no alert of a transaction left the evaluator when the handler failed
\* to persist for it
HeldBackOnFailure ==
    \A task \in Tasks :
        Evaluated(task) /\ compliance_tasks[task].result = "Err" =>
            \A alert \in Released :
                alert.transaction_id #
                    compliance_tasks[task].transaction.transaction_id

\* C27: every alert published on compliance.alerts or returned by POST
\* /compliance/check has a ComplianceCheck row of its transaction and
\* rule in the store; every transaction whose evaluation is over and for
\* which a rule fired has a ComplianceCheck row in the store; and no
\* alert of a transaction is released when the handler failed to persist
\* a row of that transaction.
Completeness ==
    /\ CheckedBeforeRelease
    /\ CheckedWhenFired
    /\ HeldBackOnFailure

\* ----------------------------------------------------------------- C28
\* the step ends the task's evaluation of its transaction
Leaves(task) ==
    /\ compliance_tasks[task].pc # "idle"
    /\ compliance_tasks'[task].pc = "idle"

\* C28: a task ends the evaluation of a transaction only after the window
\* append, the store persist, the AML rules, the KYC check, the sanctions
\* check and the risk scoring have all run, whatever their outcomes, and
\* when the consumer loop ends it every alert the evaluation produced is
\* on compliance.alerts.
AllStepsHold(task) ==
    /\ compliance_tasks[task].pc \in
           {"risk_score", "score_insert", "store_checks", "publish"}
    /\ task = "process_transactions" =>
           \A i \in 1..Len(compliance_tasks'[task].alerts) :
               \E j \in 1..Len(compliance_alerts') :
                   compliance_alerts'[j] = compliance_tasks'[task].alerts[i]

AllSteps ==
    [][\A task \in Tasks : Leaves(task) => AllStepsHold(task)]_vars

\* ----------------------------------------------------------------- C29
\* the ids of the alerts of a list that belong to the transaction
AlertIds(alerts, transaction_id) ==
    {alerts[i].alert_id :
         i \in {j \in 1..Len(alerts) :
                    alerts[j].transaction_id = transaction_id}}

\* the ids of the trades of a list
TradeIds(list) == {list[i].trade_id : i \in 1..Len(list)}

\* the step is the engine's handling of the record it handled last
OrderRedelivered ==
    /\ message # NoMessage
    /\ message' = message
    /\ consumed' = consumed + 1

\* the step ends the consumer loop's handling of a transaction whose
\* earlier handling has its alerts on compliance.alerts
TransactionRedelivered ==
    /\ Leaves("process_transactions")
    /\ AlertIds(compliance_alerts,
                compliance_tasks["process_transactions"].transaction
                    .transaction_id) # {}

\* C29: the second handling of a record yields output records with the
\* ids of the first: a redelivered transaction puts on compliance.alerts
\* alerts with the alert_ids its first handling put there, and a
\* redelivered order yields trades with the trade_ids its first handling
\* yielded.
IdempotenceHolds ==
    /\ OrderRedelivered => TradeIds(trades') = TradeIds(trades)
    /\ TransactionRedelivered =>
           LET id == compliance_tasks["process_transactions"].transaction
                         .transaction_id
               put == SubSeq(compliance_alerts', Len(compliance_alerts) + 1,
                             Len(compliance_alerts'))
           IN AlertIds(put, id) = AlertIds(compliance_alerts, id)

Idempotence == [][IdempotenceHolds]_vars

\* the part of C29 on orders alone
OrderIdempotence ==
    [][OrderRedelivered => TradeIds(trades') = TradeIds(trades)]_vars

\* the second handling of a record adds no id to the outputs
NoNewIds ==
    [][/\ OrderRedelivered => TradeIds(trades') \subseteq TradeIds(trades)
       /\ \A id \in {transactions_all[i].transaction_id :
                         i \in 1..Len(transactions_all)} :
              AlertIds(compliance_alerts, id) # {} =>
                  AlertIds(compliance_alerts', id)
                      = AlertIds(compliance_alerts, id)]_vars

\* ----------------------------------------------------------------- C30
\* the row of the user in the store's table kyc_records, None when there
\* is none
StoredKyc(user) ==
    IF user \in DOMAIN kyc_records THEN Some(kyc_records[user]) ELSE None

\* the step ends a lookup of the KYC record of the task's user, the one of
\* the KYC check or the one of the risk scoring, with a record of the
\* cache
LooksUp(task) ==
    /\ FinishesKyc(task) \/ FinishesScoring(task)
    /\ compliance_tasks[task].pc \in {"kyc", "risk_score"}

\* the step is the one in which the store answers the query of a lookup
Queries(task) ==
    \/ Evaluates(task, "kyc_query", "kyc_insert")
    \/ Evaluates(task, "score_query", "score_insert")

\* C30: every lookup of a user's KYC record, over a store that answers,
\* finds the row the store holds at that time, also after the row was
\* written since the last lookup, and the KYC check of the step raises
\* the alert that this row calls for.
CacheInvalidationHolds(task) ==
    LET t == compliance_tasks[task].transaction
    IN /\ Queries(task) =>
              compliance_tasks'[task].fetched =
                  <<"Ok", StoredKyc(t.user_id)>>
       /\ LooksUp(task) =>
              /\ Found(task) = StoredKyc(t.user_id)
              /\ FinishesKyc(task) =>
                     LET due == KycAlertFor(StoredKyc(t.user_id), t)
                         new == NewAlerts(task)
                     IN /\ due = None <=> Len(new) = 0
                        /\ \A i \in 1..Len(new) :
                               new[i].alert_type = due[1][1]

CacheInvalidation ==
    [][\A task \in Tasks : CacheInvalidationHolds(task)]_vars

\* ------------------------------------------- the cross-service claims
\* ----------------------------------------------------------------- C31
\* the consumer loops of the risk manager, of the order gateway and of
\* the compliance gateway are running: none has ended on a panic
LoopsRunning == risk_running /\ gateway_running /\ compliance_running

\* C31: a failure while one record is handled or published (the bus
\* refuses the publish, the store refuses a query) never leaves the
\* consumer loop: after every record, delivered or not, the loop of each
\* service is still running and takes the next record of its topic.
ErrorIsolation == LoopsRunning

\* ----------------------------------------------------------------- C32
\* the Trade a record of the topic carries: its payload, or its key when
\* the payload is empty
Carried(topic) ==
    [i \in 1..Len(topic) |->
        IF topic[i].payload # EmptyString THEN topic[i].payload
        ELSE topic[i].key]

\* C32: the Trade records on trades.executed are the trades the engine
\* committed, in commit order: every turn of the engine appends to the
\* topic exactly the trades of its order, in the order process_order
\* returned them, whether or not a send failed on the way.
TradeDeliveryHolds ==
    consumed' # consumed =>
        Carried(trades_executed') = Carried(trades_executed) \o trades'

TradeDelivery == [][TradeDeliveryHolds]_vars

\* ----------------------------------------------------------------- C33
\* the task holds the state mutex of the risk manager
Holds(task) == risk_mutex.holder = Some(task)

\* the awaits that wait on the bus or on a timer
Suspensions == {"consume", "sleep", "send"}

\* C33: no I/O under the state mutex of the risk manager: a task that
\* holds the mutex is never suspended in a bus consume, a bus publish or
\* a sleep, so the mutex comes free without a record having to arrive.
NoIoUnderMutex ==
    \A task \in DOMAIN risk_pc :
        Holds(task) => risk_pc[task] \notin Suspensions

\* ------------------------------------------ the execution engine's claims
\* ----------------------------------------------------------------- C34
\* every attempt of the order in hand has failed
AllFailed ==
    \A i \in 1..Len(execution_attempts) : execution_attempts[i] = "Err"

\* the venue is invoked at most max_retries + 1 times for one order
AttemptsBounded ==
    Len(execution_attempts) <= execution_config.max_retries + 1

\* the first successful attempt ends the loop: only the last attempt of
\* an order can be a success, and after it the handler has returned
FirstSuccessEnds ==
    /\ \A i \in 1..(Len(execution_attempts) - 1) :
           execution_attempts[i] = "Err"
    /\ ~AllFailed => execution_pc = "consume"

\* when every attempt has failed and none is left, the handler has
\* returned a rejected report with nothing filled
RejectedWhenExhausted ==
    (/\ AllFailed
     /\ Len(execution_attempts) = execution_config.max_retries + 1) =>
        /\ execution_pc = "consume"
        /\ execution_report.order_id = execution_order.order_id
        /\ execution_report.status = "rejected"
        /\ execution_report.filled_quantity = 0
        /\ execution_report.remaining_quantity = execution_order.quantity

\* the step ends with a call of the venue under way
InvokesVenue == execution_pc # "execute" /\ execution_pc' = "execute"

\* the step runs the breaker test of handle_execution
ConsultsBreaker == execution_pc = "consume"

Completed ==
    {<<"order", n>> : n \in 1..(IF execution_pc = "consume"
                                THEN execution_consumed
                                ELSE execution_consumed - 1)}

\* the ExecutionReports on fills for an order
ReportsFor(id) ==
    {i \in 1..Len(fills) : /\ "status" \in DOMAIN fills[i].payload
                           /\ fills[i].payload.order_id = id}

\* the Fill records on fills for an order
FillsFor(id) ==
    {i \in 1..Len(fills) : /\ "fill_id" \in DOMAIN fills[i].payload
                           /\ fills[i].payload.order_id = id}

\* the venue has executed the order last handled
Executed ==
    /\ execution_pc = "consume"
    /\ execution_attempts # <<>>
    /\ execution_attempts[Len(execution_attempts)] = "Ok"

\* no configured venue lists the symbol of the order last handled
Unserved ==
    /\ execution_pc = "consume"
    /\ execution_consumed > 0
    /\ \A i \in 1..Len(execution_config.exchanges) :
           execution_order.symbol \notin execution_config.exchanges[i].symbols

\* C35: every order the execution engine has handled has exactly one
\* ExecutionReport on fills; an order the venue executed has a Fill
\* record on fills as well; and an order whose symbol no venue serves was
\* never sent to a connector and its report is a rejection that carries
\* the reason no_exchange_for_symbol.
ExecutionOutput ==
    /\ \A id \in Completed : Cardinality(ReportsFor(id)) = 1
    /\ Executed => FillsFor(execution_order.order_id) # {}
    /\ Unserved =>
           /\ execution_attempts = <<>>
           /\ execution_report.status = "rejected"
           /\ "reason" \in DOMAIN execution_report
           /\ execution_report.reason = "no_exchange_for_symbol"

\* the parts of C35 the handler keeps when the producer delivers: one
\* report for each order handled, and no call of a venue and a rejection
\* with nothing filled for a symbol without a venue
OneReportEach ==
    execution_running =>
        /\ \A id \in Completed : Cardinality(ReportsFor(id)) = 1
        /\ Unserved =>
               /\ execution_attempts = <<>>
               /\ execution_report.status = "rejected"
               /\ execution_report.filled_quantity = 0

\* ----------------------------------------------------------------- C36
\* the records the execution engine failed on: the rejected reports
FailedRecords ==
    {i \in 1..Len(fills) : fills[i].payload.status = "rejected"}

\* the breaker of the execution engine is active
ExecutionBreakerActive ==
    /\ execution_circuit_breaker_state.cooldown_until # None
    /\ now < execution_circuit_breaker_state.cooldown_until[1]

\* C36: the breaker trips on repeated failures: once the number of failed
\* records has reached circuit_breaker_threshold, the breaker of the
\* execution engine is active: cooldown_until is set and has not passed.
BreakerTripsOnFailures ==
    Cardinality(FailedRecords) >= execution_config.circuit_breaker_threshold
        => ExecutionBreakerActive

\* ------------------------------------------- the remaining book claims
\* ----------------------------------------------------------------- C37
\* C37: the book is never crossed: after every call of process_order on
\* limit orders, on each symbol every price with resting bids is strictly
\* lower than every price with resting asks.
NeverCrossed ==
    \A s \in Symbols :
        \A bid \in LevelsOf(buy_orders, s) :
            \A ask \in LevelsOf(sell_orders, s) : bid < ask

\* ------------------------------------------ the remaining risk claims
\* ----------------------------------------------------------------- C38
\* what a call of handle_risk_check does with an order that yields no
\* violation while the breaker is not active
CleanOrderRule ==
    (/\ Handled
     /\ ~BreakerActive
     /\ collect_violations(risk_config,
                           risk_consumed'[Len(risk_consumed')]) = <<>>)
        => /\ risk_result'.status = "approved"
           /\ BreakerUntouched

\* C38: a clean order is never rejected by the breaker logic: for every
\* value of circuit_breaker_threshold, 0 included, when the breaker is not
\* active and the order yields no violation, handle_risk_check returns
\* status approved and does not trip the breaker.
CleanOrderApproved == [][CleanOrderRule]_vars

\* ------------------------------------ the remaining compliance claims
\* ----------------------------------------------------------------- C39
\* the row that the table kyc_records of the store holds for the user
Stored(user) ==
    IF user \in DOMAIN kyc_records THEN Some(kyc_records[user]) ELSE None

\* the KYC check reports a missing record only for a user without a row
NoRecordAlertHolds(task) ==
    LET t == compliance_tasks[task].transaction
        new == NewAlerts(task)
    IN OfType(new, "NO_KYC_RECORD") # {} => Stored(t.user_id) = None

\* the score of a user with a row carries the part of that row's rating
\* and not the 50 points of a missing record
NoRecordPenaltyHolds(task) ==
    LET t == compliance_tasks[task].transaction
        count == Cardinality(OwnRecent(t.user_id))
    IN Stored(t.user_id) # None =>
           compliance_tasks'[task].risk_score =
               Min(100, ScoreParts(t, count, Stored(t.user_id)))

\* C39: a failed KYC lookup is not a missing record: the KYC check emits
\* NO_KYC_RECORD, and the risk score adds the 50 points of a missing
\* record, only when the store holds no KYC row for the user; when the
\* query itself fails, a user with an approved row is not reported as
\* having none.
FailedLookupIsNotMissing ==
    [][\A task \in Tasks :
           /\ FinishesKyc(task) => NoRecordAlertHolds(task)
           /\ FinishesScoring(task) => NoRecordPenaltyHolds(task)]_vars

\* the same two rules over the steps in which the store answers the query
\* or the cache holds the record
AnsweredLookup ==
    [][\A task \in Tasks :
           LET user == compliance_tasks[task].transaction.user_id
           IN Found(task) = Stored(user) =>
                  /\ FinishesKyc(task) => NoRecordAlertHolds(task)
                  /\ FinishesScoring(task) =>
                         NoRecordPenaltyHolds(task)]_vars

\* ----------------------------------------------------------------- C40
\* the places of the user's window that hold the transaction
EntriesOf(history, transaction) ==
    {i \in 1..Len(WindowOf(history, transaction.user_id)) :
         history[transaction.user_id][i].transaction_id =
             transaction.transaction_id}

\* the step is the one in which the store turns the task's transaction
\* away and handle_transaction_compliance returns
StoreFails(task) ==
    /\ compliance_tasks[task].pc = "store_transaction"
    /\ compliance_tasks'[task].pc = "idle"

\* a call whose transaction the store turns away returns an error and
\* leaves nothing of it in the window; every call brings a transaction_id
\* of its own, so the window before the call did not hold it
StoreFailureHolds(task) ==
    /\ compliance_tasks'[task].result = "Err"
    /\ EntriesOf(transaction_history', compliance_tasks[task].transaction)
           = {}

\* C40: state unchanged on store failure: when persisting a transaction
\* to the store fails, handle_transaction_compliance returns an error and
\* the user's in-memory window is the same as before the call, so that a
\* transaction the store rejected is not counted by later velocity checks
\* or risk scores.
StoreFailureKeepsWindow ==
    [][\A task \in Tasks : StoreFails(task) => StoreFailureHolds(task)]_vars

\* a redelivered transaction that the store turned away as a duplicate is
\* twice in its user's window and once in the store
DuplicateCounted ==
    LET rec == compliance_tasks["process_transactions"]
    IN /\ rec.pc = "idle"
       /\ rec.result = "Err"
       /\ rec.transaction \in db_transactions
       /\ Cardinality(EntriesOf(transaction_history, rec.transaction)) = 2
       /\ Cardinality(OwnRecent(rec.transaction.user_id)) = 2

====
